---------------------------- MODULE Spec2Model ----------------------------
(***************************************************************************)
(* A model of the fea-rs feature-file compiler: the lossless token tree    *)
(* (ast.rs), tree edits, the table grammar of the parser, the validator    *)
(* (validate.rs), the lowering context (compile_ctx.rs) and the layout     *)
(* builders (builders.rs).                                                 *)
(*                                                                         *)
(* The module holds several specifications, one per component; each one    *)
(* drives its own group of variables and leaves the other groups at their  *)
(* idle values.                                                            *)
(***************************************************************************)
EXTENDS Integers, Sequences, FiniteSets, TLC

VARIABLES
    \* ---- AstSink / TreeBuilder (ast.rs) ----
    text,          \* AstSink.text: the input, a sequence of characters
    text_pos,      \* AstSink.text_pos
    parents,       \* TreeBuilder.parents: <<kind, index of first child>>
    children,      \* TreeBuilder.children
    sink_errors,   \* AstSink.errors (number of SyntaxErrors pushed)
    sink_pc,       \* "idle" | "parsing" | "finished"
    root,          \* the Node returned by AstSink::finish
    \* ---- apply_edits (ast.rs) ----
    edits,         \* the edits handed to apply_edits: a set of [range, node]
    edited,        \* its outcome: NoNode before the call, then [panic, node]
    \* ---- CompilationCtx (compile_ctx.rs) ----
    errors,                \* Vec<Diagnostic>: "error" / "warning", in order
    tables,                \* Tables: GDEF is "none", "declared" or "inferred"
    features,              \* BTreeMap<FeatureKey, Vec<LookupId>>
    default_lang_systems,  \* HashSet<(Tag, Tag)>
    lookups,               \* AllLookups
    lookup_flags,          \* LookupFlags (bits)
    cur_mark_filter_set,   \* Option<FilterSetId>; 0 is None
    cur_language_systems,  \* HashSet<(Tag, Tag)>
    cur_feature_name,      \* Option<Tag>; "" is None
    script,                \* Option<Tag>; "" is None
    \* ---- the walk of CompilationCtx::compile over the tree ----
    where,         \* the blocks the walk is inside, innermost last
    block_kind,    \* kind of the first rule of the open lookup block, "" if none
    nstmts,        \* statements lowered so far
    src,           \* per feature: its lookups in source order, 0 the open one
    panic,         \* "" or the assertion / unwrap that failed
    compilation,   \* result of build: NoResult, or Err / Ok
    \* ---- a mark-to-base subtable (compile_ctx.rs, builders.rs) ----
    marks,         \* subtable.marks / MarkList: glyph -> [mark_class, anchor]
    bases,         \* subtable.bases: the mark classes attached to the rule's base
    mark_result,   \* outcome of the last insertion: NoResult, Ok or Err(class)
    mark_ops,      \* insertions and rules so far
    \* ---- interning tables of CompilationCtx (compile_ctx.rs) ----
    mark_attach_class_id,  \* canonical glyph class -> id
    mark_filter_sets,      \* canonical glyph class -> id
    intern_calls,  \* the calls so far: [table, glyphs, id]
    \* ---- the parser inside a table block (grammar/table.rs) ----
    tokens,        \* the token kinds after `table <tag> {`
    table_tag,     \* the tag of the table
    parse_pos,     \* Parser position: index of the next token
    parse_pc,      \* "idle" | "entries" | "done"
    parse_iter,    \* iterations of the entry loop of table_impl so far
    \* ---- the GDEF table of CompilationCtx (compile_ctx.rs) ----
    gdef,          \* tables.GDEF: NoTable, or [glyph_classes: glyph -> class]
    mark_classes,  \* mark_classes: name -> the glyphs of its members
    rule_glyphs,   \* base / ligature glyphs of the mark rules, in lookup order
    gdef_blocks,   \* `table GDEF` blocks lowered so far
    gdef_errors,   \* whether an error diagnostic was pushed
    gdef_steps,    \* statements lowered so far
    gdef_result,   \* result of build: NoResult, or Err / Ok
    \* ---- ValidationCtx (validate.rs), and the lowering of its tree ----
    v_errors,                \* ValidationCtx.errors: [error, message, at]
    v_default_lang_systems,  \* ValidationCtx.default_lang_systems
    seen_non_default_script, \* ValidationCtx.seen_non_default_script
    mark_class_defs,         \* ValidationCtx.mark_class_defs
    mark_class_used,         \* ValidationCtx.mark_class_used: NoToken or a token
    v_stmts,                 \* the statements validate_root has walked, in order
    v_lowered,               \* lowering of the accepted tree: NoResult or [panic]
    \* ---- one AxisValue record of a STAT table ----
    locations,     \* the location statements of the record walked so far
    seen_location_format,    \* validate_stat: Option<char>; "" is None
    stat_errors,   \* errors validate_stat reported for the record
    stat_pc,       \* "validating" | "validated" | "lowered"
    axis_value,    \* resolve_stat_axis_value: NoResult, or [panic, location]
    \* ---- single substitution rules in one feature (compile_ctx.rs) ----
    ss_lookups,    \* self.lookups
    ss_items,      \* SingleSubBuilder::items of the current lookup
    ss_features,   \* self.features
    ss_errors,     \* messages of the errors pushed
    ss_calls,      \* rules lowered so far
    \* ---- SinglePosBuilder (builders.rs) ----
    sp_subtables,  \* SinglePosBuilder.subtables: [format, items]
    sp_built,      \* build: NoResult, or [subtables]
    sp_calls,      \* insert calls so far
    \* ---- MarkToBaseBuilder (builders.rs) ----
    mb_marks,      \* MarkToBaseBuilder.marks: glyph -> MarkRecord
    mb_mark_classes, \* MarkToBaseBuilder.mark_classes
    mb_bases,      \* MarkToBaseBuilder.bases: glyph -> <<class, anchor>> pairs
    mb_built,      \* build: NoResult, or the MarkBasePos subtable
    mb_calls,      \* insert calls so far
    \* ---- sequence_enumerator (compile_ctx.rs) ----
    se_sequence,   \* the sequence of glyph-or-class items
    se_result,     \* NoResult, or [panic, out] of sequence_enumerator
    \* ---- the parser inside a feature or lookup block (grammar/feature.rs) ----
    fp_tokens,     \* the tokens after the opening brace of the block
    fp_in_lookup,  \* the block is a lookup block
    fp_pos,        \* index of the next token
    fp_pc,         \* "idle", "body", "cv", "names", "closing", "done"
    fp_iter,       \* loop iterations so far
    \* ---- name strings (validate.rs, tables.rs) ----
    ns_platform,   \* platform id of the name record
    ns_string,     \* the string between the quotes
    ns_work,       \* parse_win, parse_mac: the text still to decode
    ns_out,        \* parse_win, parse_mac: the units decoded so far
    ns_pc,         \* "idle", "validating", "accepted", "rejected", "parsing", "panic", "done"
    ns_iter        \* loop iterations of parse_win, parse_mac so far

treeVars == <<text, text_pos, parents, children, sink_errors, sink_pc, root>>
editVars == <<edits, edited>>
ctxVars == <<errors, tables, features, default_lang_systems, lookups, lookup_flags,
             cur_mark_filter_set, cur_language_systems, cur_feature_name, script>>
walkVars == <<where, block_kind, nstmts, src, panic, compilation>>
walkVarsButResult == <<where, block_kind, nstmts, src, panic>>
lowerVars == <<ctxVars, walkVars>>

markVars == <<marks, bases, mark_result, mark_ops>>
internVars == <<mark_attach_class_id, mark_filter_sets, intern_calls>>
tableVars == <<tokens, table_tag, parse_pos, parse_pc, parse_iter>>

gdefVars == <<gdef, mark_classes, rule_glyphs, gdef_blocks, gdef_errors, gdef_steps,
              gdef_result>>
validateVars == <<v_errors, v_default_lang_systems, seen_non_default_script,
                  mark_class_defs, mark_class_used, v_stmts, v_lowered>>
statVars == <<locations, seen_location_format, stat_errors, stat_pc, axis_value>>
singleSubVars == <<ss_lookups, ss_items, ss_features, ss_errors, ss_calls>>
singlePosVars == <<sp_subtables, sp_built, sp_calls>>
markBaseVars == <<mb_marks, mb_mark_classes, mb_bases, mb_built, mb_calls>>
enumVars == <<se_sequence, se_result>>
featVars == <<fp_tokens, fp_in_lookup, fp_pos, fp_pc, fp_iter>>
nameVars == <<ns_platform, ns_string, ns_work, ns_out, ns_pc, ns_iter>>
vars == <<treeVars, editVars, lowerVars, markVars, internVars, tableVars,
          gdefVars, validateVars, statVars, singleSubVars, singlePosVars,
          markBaseVars, enumVars, featVars, nameVars>>

\* the groups an action of one component leaves alone
notTree == <<editVars, lowerVars, markVars, internVars, tableVars, gdefVars,
             validateVars, statVars, singleSubVars, singlePosVars,
             markBaseVars, enumVars, featVars, nameVars>>
notEdit == <<treeVars, lowerVars, markVars, internVars, tableVars, gdefVars,
             validateVars, statVars, singleSubVars, singlePosVars,
             markBaseVars, enumVars, featVars, nameVars>>
notLower == <<treeVars, editVars, markVars, internVars, tableVars, gdefVars,
              validateVars, statVars, singleSubVars, singlePosVars,
              markBaseVars, enumVars, featVars, nameVars>>
notMark == <<treeVars, editVars, lowerVars, internVars, tableVars, gdefVars,
             validateVars, statVars, singleSubVars, singlePosVars,
             markBaseVars, enumVars, featVars, nameVars>>
notIntern == <<treeVars, editVars, lowerVars, markVars, tableVars, gdefVars,
               validateVars, statVars, singleSubVars, singlePosVars,
               markBaseVars, enumVars, featVars, nameVars>>
notTable == <<treeVars, editVars, lowerVars, markVars, internVars, gdefVars,
              validateVars, statVars, singleSubVars, singlePosVars,
              markBaseVars, enumVars, featVars, nameVars>>
notGdef == <<treeVars, editVars, lowerVars, markVars, internVars, tableVars,
             validateVars, statVars, singleSubVars, singlePosVars,
             markBaseVars, enumVars, featVars, nameVars>>
notValidate == <<treeVars, editVars, lowerVars, markVars, internVars,
                 tableVars, gdefVars, statVars, singleSubVars, singlePosVars,
                 markBaseVars, enumVars, featVars, nameVars>>
notStat == <<treeVars, editVars, lowerVars, markVars, internVars, tableVars,
             gdefVars, validateVars, singleSubVars, singlePosVars,
             markBaseVars, enumVars, featVars, nameVars>>
notSingleSub == <<treeVars, editVars, lowerVars, markVars, internVars,
                  tableVars, gdefVars, validateVars, statVars, singlePosVars,
                  markBaseVars, enumVars, featVars, nameVars>>
notSinglePos == <<treeVars, editVars, lowerVars, markVars, internVars,
                  tableVars, gdefVars, validateVars, statVars, singleSubVars,
                  markBaseVars, enumVars, featVars, nameVars>>
notMarkBase == <<treeVars, editVars, lowerVars, markVars, internVars,
                 tableVars, gdefVars, validateVars, statVars, singleSubVars,
                 singlePosVars, enumVars, featVars, nameVars>>
notEnum == <<treeVars, editVars, lowerVars, markVars, internVars, tableVars,
             gdefVars, validateVars, statVars, singleSubVars, singlePosVars,
             markBaseVars, featVars, nameVars>>
notFeat == <<treeVars, editVars, lowerVars, markVars, internVars, tableVars,
             gdefVars, validateVars, statVars, singleSubVars, singlePosVars,
             markBaseVars, enumVars, nameVars>>
notName == <<treeVars, editVars, lowerVars, markVars, internVars, tableVars,
             gdefVars, validateVars, statVars, singleSubVars, singlePosVars,
             markBaseVars, enumVars, featVars>>

-----------------------------------------------------------------------------
(* Bounds of the model *)

MaxText == 3        \* longest input text
MaxTokLen == 2      \* longest token the lexer hands out
MaxNodes == 2       \* start_node events per parse
MaxSinkErrors == 1  \* error events per parse

-----------------------------------------------------------------------------
(* Generic helpers *)

SeqsUpTo(S, n) == UNION {[1..k -> S] : k \in 0..n}

NoNode == [none |-> TRUE]

Chars == {"a", "b"}
TokenKinds == {"Ident"}
NodeKinds == {"SourceFile", "FeatureNode"}

EmptyMap == [x \in {} |-> 0]
MapPut(m, k, v) == [x \in DOMAIN m \cup {k} |-> IF x = k THEN v ELSE m[x]]
MapGet(m, k, dflt) == IF k \in DOMAIN m THEN m[k] ELSE dflt

-----------------------------------------------------------------------------
(* The state of each component before it is used *)

NoLookup == [none |-> TRUE]
NoResult == [none |-> TRUE]
NoTable == [none |-> TRUE]
NoToken == [none |-> TRUE]

FeatureTags == {"liga"}
ScriptTags == {"DFLT", "latn"}
LangTags == {"dflt", "TRK"}
RuleKinds == {"GsubType4", "GposType4"}
LookupNames == {"l1"}

EditIdle == edits = {} /\ edited = NoNode

\* AstSink::new
TreeIdle ==
    /\ text = <<>> /\ text_pos = 0 /\ parents = <<>> /\ children = <<>>
    /\ sink_errors = 0 /\ sink_pc = "idle" /\ root = NoNode

\* AllLookups::default
AllLookups_default ==
    [done |-> <<>>, current |-> NoLookup, current_name |-> "", named |-> EmptyMap]

\* CompilationCtx::new
CompilationCtx_new ==
    /\ errors = <<>>
    /\ tables = [GDEF |-> "none"]
    /\ features = EmptyMap
    /\ default_lang_systems = {}
    /\ lookups = AllLookups_default
    /\ lookup_flags = 0
    /\ cur_mark_filter_set = 0
    /\ cur_language_systems = {}
    /\ cur_feature_name = ""
    /\ script = ""

WalkStart ==
    /\ where = <<>> /\ block_kind = "" /\ nstmts = 0
    /\ src = [f \in FeatureTags |-> <<>>]
    /\ panic = "" /\ compilation = NoResult

LowerIdle == CompilationCtx_new /\ WalkStart

\* MarkToBaseBuilder::default
MarkIdle ==
    /\ marks = EmptyMap /\ bases = {} /\ mark_result = NoResult /\ mark_ops = 0

\* CompilationCtx::new
InternIdle ==
    /\ mark_attach_class_id = EmptyMap /\ mark_filter_sets = EmptyMap
    /\ intern_calls = <<>>

TableIdle ==
    /\ tokens = <<>> /\ table_tag = "" /\ parse_pos = 1 /\ parse_pc = "idle"
    /\ parse_iter = 0

\* CompilationCtx::new
GdefIdle ==
    /\ gdef = NoTable /\ mark_classes = EmptyMap /\ rule_glyphs = <<>>
    /\ gdef_blocks = 0 /\ gdef_errors = FALSE /\ gdef_steps = 0
    /\ gdef_result = NoResult

\* ValidationCtx::new
ValidateIdle ==
    /\ v_errors = <<>> /\ v_default_lang_systems = {}
    /\ seen_non_default_script = FALSE
    /\ mark_class_defs = {} /\ mark_class_used = NoToken
    /\ v_stmts = <<>> /\ v_lowered = NoResult

\* validate_stat before the statements of the record
StatIdle ==
    /\ locations = <<>> /\ seen_location_format = "" /\ stat_errors = <<>>
    /\ stat_pc = "validating" /\ axis_value = NoResult

\* the context at the start of the first feature block
SingleSubIdle ==
    /\ ss_lookups = AllLookups_default /\ ss_items = EmptyMap
    /\ ss_features = EmptyMap /\ ss_errors = <<>> /\ ss_calls = 0

\* SinglePosBuilder::default
SinglePosIdle ==
    sp_subtables = <<>> /\ sp_built = NoResult /\ sp_calls = 0

\* MarkToBaseBuilder::default
MarkBaseIdle ==
    /\ mb_marks = EmptyMap /\ mb_mark_classes = {} /\ mb_bases = EmptyMap
    /\ mb_built = NoResult /\ mb_calls = 0

\* no sequence is being enumerated
EnumIdle ==
    se_sequence = <<>> /\ se_result = NoResult

\* no feature block is being parsed
FeatIdle ==
    /\ fp_tokens = <<>> /\ fp_in_lookup = FALSE /\ fp_pos = 1
    /\ fp_pc = "idle" /\ fp_iter = 0

\* no name string is being handled
NameIdle ==
    /\ ns_platform = 3 /\ ns_string = <<>> /\ ns_work = <<>> /\ ns_out = <<>>
    /\ ns_pc = "idle" /\ ns_iter = 0

RestIdle ==
    /\ MarkIdle
    /\ InternIdle
    /\ TableIdle
    /\ GdefIdle
    /\ ValidateIdle
    /\ StatIdle
    /\ SingleSubIdle
    /\ SinglePosIdle
    /\ MarkBaseIdle
    /\ EnumIdle
    /\ FeatIdle
    /\ NameIdle

-----------------------------------------------------------------------------
(* Token tree: ast.rs *)

\* struct Token { kind, text }
Token(kind, txt) == [tok |-> TRUE, kind |-> kind, text |-> txt]

\* NodeOrToken::text_len
TextLen(item) == IF item.tok THEN Len(item.text) ELSE item.text_len

\* the running sum `text_len` of Node::new after the first n children
RECURSIVE SumTextLen(_, _)
SumTextLen(items, n) ==
    IF n = 0 THEN 0 ELSE SumTextLen(items, n - 1) + TextLen(items[n])

\* Node::new: every child node's rel_pos is increased by the length of the
\* children before it; the node's own rel_pos is 0.
Node_new(kind, items) ==
    [tok      |-> FALSE,
     kind     |-> kind,
     rel_pos  |-> 0,
     text_len |-> SumTextLen(items, Len(items)),
     children |-> [i \in 1..Len(items) |->
                    IF items[i].tok THEN items[i]
                    ELSE [items[i] EXCEPT !.rel_pos = @ + SumTextLen(items, i - 1)]]]

\* Node::iter_tokens: the text of the tokens a cursor meets, in document order
RECURSIVE TokensText(_)
ForestText(items) ==
    LET RECURSIVE Cat(_)
        Cat(n) == IF n = 0 THEN <<>> ELSE Cat(n - 1) \o TokensText(items[n])
    IN Cat(Len(items))
TokensText(item) == IF item.tok THEN item.text ELSE ForestText(item.children)

\* number of nodes in a forest (bounds the model)
RECURSIVE CountNodes(_)
CountNodesIn(items) ==
    LET RECURSIVE Cnt(_)
        Cnt(n) == IF n = 0 THEN 0 ELSE Cnt(n - 1) + CountNodes(items[n])
    IN Cnt(Len(items))
CountNodes(item) == IF item.tok THEN 0 ELSE 1 + CountNodesIn(item.children)

\* TreeBuilder::token followed by push_raw
TreeBuilder_token(kind, txt) == children' = Append(children, Token(kind, txt))

\* AstSink::token with the slice taken from the start of the text
AstSink_token_no_offset(kind, len) ==
    /\ sink_pc = "parsing"
    /\ text_pos + len <= Len(text)
    /\ TreeBuilder_token(kind, SubSeq(text, 1, len))
    /\ text_pos' = text_pos + len
    /\ UNCHANGED <<text, parents, sink_errors, sink_pc, root, notTree>>

\* AstSink::token
AstSink_token(kind, len) ==
    /\ sink_pc = "parsing"
    /\ text_pos + len <= Len(text)      \* the slice text[text_pos..text_pos+len]
    /\ TreeBuilder_token(kind, SubSeq(text, text_pos + 1, text_pos + len))
    /\ text_pos' = text_pos + len
    /\ UNCHANGED <<text, parents, sink_errors, sink_pc, root, notTree>>

\* AstSink::start_node / TreeBuilder::start_node
AstSink_start_node(kind) ==
    /\ sink_pc = "parsing"
    /\ Len(parents) + CountNodesIn(children) < MaxNodes
    /\ parents' = Append(parents, <<kind, Len(children)>>)
    /\ UNCHANGED <<text, text_pos, children, sink_errors, sink_pc, root, notTree>>

\* AstSink::finish_node / TreeBuilder::finish_node
AstSink_finish_node ==
    /\ sink_pc = "parsing"
    /\ parents # <<>>                   \* parents.pop().unwrap()
    /\ LET top   == parents[Len(parents)]
           first == top[2]
           node  == Node_new(top[1], SubSeq(children, first + 1, Len(children)))
       IN /\ parents' = SubSeq(parents, 1, Len(parents) - 1)
          /\ children' = Append(SubSeq(children, 1, first), node)
    /\ UNCHANGED <<text, text_pos, sink_errors, sink_pc, root, notTree>>

\* AstSink::error
AstSink_error ==
    /\ sink_pc = "parsing"
    /\ sink_errors < MaxSinkErrors
    /\ sink_errors' = sink_errors + 1
    /\ UNCHANGED <<text, text_pos, parents, children, sink_pc, root, notTree>>

\* AstSink::finish / TreeBuilder::finish, called when the parser has reached
\* the end of the input with every node closed.
AstSink_finish ==
    /\ sink_pc = "parsing"
    /\ text_pos = Len(text)
    /\ parents = <<>>
    /\ Len(children) = 1               \* assert_eq!(self.children.len(), 1)
    /\ ~children[1].tok                \* into_node().unwrap()
    /\ root' = children[1]
    /\ sink_pc' = "finished"
    /\ UNCHANGED <<text, text_pos, parents, children, sink_errors, notTree>>

InitTree ==
    /\ text \in SeqsUpTo(Chars, MaxText)
    /\ text_pos = 0
    /\ parents = <<>>
    /\ children = <<>>
    /\ sink_errors = 0
    /\ sink_pc = "parsing"
    /\ root = NoNode
    /\ EditIdle
    /\ LowerIdle
    /\ RestIdle

NextTree ==
    \/ \E k \in TokenKinds, len \in 1..MaxTokLen : AstSink_token(k, len)
    \/ \E k \in NodeKinds : AstSink_start_node(k)
    \/ AstSink_finish_node
    \/ AstSink_error
    \/ AstSink_finish

SpecTree == InitTree /\ [][NextTree]_vars

-----------------------------------------------------------------------------
(* C1: lossless parse.  At every point of a parse text_pos equals the total  *)
(* length of the tokens emitted so far and the tokens in the builder spell   *)
(* the consumed prefix of the input; the finished tree spells the input.     *)
LosslessParse ==
    sink_pc # "idle" =>
        /\ text_pos = SumTextLen(children, Len(children))
        /\ ForestText(children) = SubSeq(text, 1, text_pos)
        /\ (sink_pc = "finished" => TokensText(root) = text)

\* a finished parse of a text of two different characters, with a syntax
\* error recorded and a node nested in the root
WitnessLosslessParse ==
    /\ sink_pc = "finished"
    /\ sink_errors > 0
    /\ Len(text) >= 2 /\ text[1] # text[2]
    /\ \E i \in 1..Len(root.children) : ~root.children[i].tok

-----------------------------------------------------------------------------
(* Tree edits: ast.rs, apply_edits *)

MaxEdits == 2       \* edits per call of apply_edits

Range(s, e) == [start |-> s, end |-> e]

\* the ranges of the nodes and tokens below a node whose children are `items`
\* and start at `pos` (Cursor::pos of each item, summing text lengths)
RECURSIVE ItemRanges(_, _, _)
ItemRanges(items, i, pos) ==
    IF i > Len(items) THEN {}
    ELSE LET cur == items[i]
             own == {Range(pos, pos + TextLen(cur))}
             sub == IF cur.tok THEN {} ELSE ItemRanges(cur.children, 1, pos)
         IN own \cup sub \cup ItemRanges(items, i + 1, pos + TextLen(cur))

Overlap(r, q) == r.start < q.end /\ q.start < r.end

\* the nodes an edit may put in place of a range
Replacements ==
    { Node_new("FeatureNode", <<Token("Ident", t)>>) : t \in {<<"x">>, <<"x", "y">>} }

\* edits.sort_unstable_by_key(|(range, _)| range.start); edits.reverse():
\* the edit with the smallest start is last
RECURSIVE SortedReversed(_)
SortedReversed(S) ==
    IF S = {} THEN <<>>
    ELSE LET m == CHOOSE e \in S : \A f \in S : e.range.start <= f.range.start
         IN Append(SortedReversed(S \ {m}), m)

\* op_for_node; "Panic" is a failed assert!
op_for_node(node_range, edit_range) ==
    IF ~(edit_range.start >= node_range.start) THEN "Panic"
    ELSE IF node_range = edit_range THEN "Replace"
    ELSE IF edit_range.start > node_range.start /\ edit_range.end < node_range.end
         THEN "Recurse"
    ELSE IF edit_range.end <= node_range.start \/ edit_range.start >= node_range.end
         THEN "Copy"
    ELSE "Panic"

\* the loop of apply_edits_recurse over the children `items` of the cursor's
\* parent, from child i at position pos; `acc` are the children pushed to the
\* builder since its start_node, `es` the edits left (next one last).
\* The result is [panic, out, es]: `out` the children finish_node wraps.
RECURSIVE apply_edits_recurse(_, _, _, _, _)
apply_edits_recurse(items, i, pos, acc, es) ==
    IF i > Len(items) THEN [panic |-> FALSE, out |-> acc, es |-> es]
    ELSE
      LET current == items[i]
          len == TextLen(current)
      IN IF es = <<>>
         THEN apply_edits_recurse(items, i + 1, pos + len, Append(acc, current), es)
         ELSE
           LET next_edit == es[Len(es)]
               op == op_for_node(Range(pos, pos + len), next_edit.range)
           IN CASE op = "Copy" ->
                    apply_edits_recurse(items, i + 1, pos + len, Append(acc, current), es)
                [] op = "Replace" ->
                    apply_edits_recurse(items, i + 1, pos + len,
                                        Append(acc, next_edit.node),
                                        SubSeq(es, 1, Len(es) - 1))
                [] op = "Recurse" /\ ~current.tok ->
                    LET r == apply_edits_recurse(current.children, 1, pos, <<>>, es)
                    IN IF r.panic THEN r
                       ELSE apply_edits_recurse(items, i + 1, pos + len,
                                Append(acc, Node_new(current.kind, r.out)), r.es)
                [] OTHER -> [panic |-> TRUE, out |-> acc, es |-> es]

\* apply_edits: [panic |-> TRUE] when an assertion fails, else the new tree
\* and the edits that were never applied
apply_edits(base, S) ==
    LET r == apply_edits_recurse(base.children, 1, 0, <<>>, SortedReversed(S))
    IN IF r.panic THEN [panic |-> TRUE]
       ELSE [panic |-> FALSE, node |-> Node_new(base.kind, r.out), left |-> Len(r.es)]

\* The callers' edits: at most MaxEdits of them, each on the non-empty range
\* of a node or token below the root, no two ranges overlapping.
EditSets(base) ==
    LET ranges == {r \in ItemRanges(base.children, 1, 0) :
                      r.start < r.end /\ r # Range(0, base.text_len)}
        all == {[range |-> r, node |-> n] : r \in ranges, n \in Replacements}
    IN {S \in SUBSET all :
          /\ Cardinality(S) <= MaxEdits
          /\ \A e, f \in S : e # f => ~Overlap(e.range, f.range)}

\* the call apply_edits(&root, edits) on a finished tree
ApplyEdits ==
    /\ sink_pc = "finished"
    /\ edited = NoNode
    /\ \E S \in EditSets(root) :
          /\ edits' = S
          /\ edited' = apply_edits(root, S)
    /\ UNCHANGED notEdit

NextEdit ==
    \/ \E k \in TokenKinds, len \in 1..MaxTokLen : AstSink_token(k, len)
    \/ \E k \in NodeKinds : AstSink_start_node(k)
    \/ AstSink_finish_node
    \/ AstSink_error
    \/ AstSink_finish
    \/ ApplyEdits

SpecEdit == InitTree /\ [][NextEdit]_vars

\* the text with each edit range replaced by the text of its node, the edits
\* taken from the last range to the first
RECURSIVE ReplaceRanges(_, _)
ReplaceRanges(txt, S) ==
    IF S = {} THEN txt
    ELSE LET m == CHOOSE e \in S : \A f \in S : e.range.start >= f.range.start
         IN ReplaceRanges(SubSeq(txt, 1, m.range.start) \o TokensText(m.node)
                             \o SubSeq(txt, m.range.end + 1, Len(txt)),
                          S \ {m})

(* C2: edit correctness.  apply_edits, given edits on pairwise non-overlapping *)
(* ranges of the tree, returns a tree whose tokens spell the text of the base  *)
(* tree with each edit range replaced by the text of its replacement node.     *)
EditCorrectness ==
    edited # NoNode =>
        /\ ~edited.panic
        /\ TokensText(edited.node) = ReplaceRanges(TokensText(root), edits)

-----------------------------------------------------------------------------
(* Lowering: compile_ctx.rs.  The walker hands the context the statements of *)
(* a source file that passed validation, one at a time.                      *)

MaxStmts == 7       \* statements lowered in one run
MaxLookups == 3     \* lookups in the registry
MaxDiag == 1        \* diagnostics accumulated

SCRIPT_DFLT_TAG == "DFLT"
LANG_DFLT_TAG == "dflt"
AALT_TAG == "aalt"
SIZE_TAG == "size"

Empty == 0          \* LookupId::Empty; other ids are positions in the registry
IGNORE_MARKS == 8

Diagnostic_error(msg) == [error |-> TRUE, message |-> msg]
Diagnostic_warning(msg) == [error |-> FALSE, message |-> msg]
is_error(d) == d.error

FeatureKey_for_feature(f) ==
    [feature |-> f, script |-> SCRIPT_DFLT_TAG, language |-> LANG_DFLT_TAG]
FeatureKey_script(key, s) == [key EXCEPT !.script = s]
FeatureKey_language(key, l) == [key EXCEPT !.language = l]

SomeLookup_new(kind, flags, filter) ==
    [kind |-> kind, flags |-> flags, mark_set |-> filter]

has_current(L) == L.current # NoLookup

\* every rule asks for a new lookup
needs_new_lookup_always(L, kind) == TRUE

needs_new_lookup(L, kind) ==
    IF has_current(L) THEN L.current.kind # kind ELSE TRUE

\* The lookup in the current slot is pushed to the registry; the id it gets
\* is returned, and what remains of the registry with it.
start_lookup(L, kind, flags, filter) ==
    LET fin == has_current(L)
        done2 == IF fin THEN Append(L.done, L.current) ELSE L.done
    IN  [some |-> fin,
         id |-> IF fin THEN Len(done2) ELSE Empty,
         L |-> [L EXCEPT !.done = done2,
                         !.current = SomeLookup_new(kind, flags, filter)]]

start_named(L, name) == [L EXCEPT !.current_name = name]

finish_current(L) ==
    IF has_current(L)
    THEN LET id == Len(L.done) + 1
         IN  [some |-> TRUE, id |-> id, name |-> L.current_name,
              L |-> [done |-> Append(L.done, L.current),
                     current |-> NoLookup,
                     current_name |-> "",
                     named |-> IF L.current_name # ""
                               THEN MapPut(L.named, L.current_name, id)
                               ELSE L.named]]
    ELSE IF L.current_name # ""
    THEN [some |-> TRUE, id |-> Empty, name |-> L.current_name,
          L |-> [L EXCEPT !.current_name = "",
                          !.named = MapPut(L.named, L.current_name, Empty)]]
    ELSE [some |-> FALSE, id |-> Empty, name |-> "", L |-> L]

get_named(L, name) ==
    IF name \in DOMAIN L.named
    THEN [some |-> TRUE, id |-> L.named[name]]
    ELSE [some |-> FALSE, id |-> Empty]

\* the lookup goes to the default key of the feature alone
add_lookup_to_feature_default_key(feats, cls, lookup, feature) ==
    IF lookup = Empty THEN feats
    ELSE LET key == FeatureKey_for_feature(feature)
         IN  MapPut(feats, key, Append(MapGet(feats, key, <<>>), lookup))

\* add_lookup_to_feature as a function of the feature map and the current
\* language systems
add_lookup_to_feature(feats, cls, lookup, feature) ==
    IF lookup = Empty THEN feats
    ELSE LET base == FeatureKey_for_feature(feature)
             keys == {FeatureKey_language(FeatureKey_script(base, sl[1]), sl[2]) :
                        sl \in cls}
         IN  [k \in DOMAIN feats \cup keys |->
                IF k \in keys THEN Append(MapGet(feats, k, <<>>), lookup)
                ELSE feats[k]]

\* Source order of the lookups of each feature: the position a lookup takes
\* when it is opened (0 until it is finished and has an id), and the
\* position of each lookup reference.
SrcOpen(s, f) == IF f = "" THEN s ELSE [s EXCEPT ![f] = Append(@, 0)]
SrcClose(s, f, id) ==
    IF f = "" THEN s
    ELSE [s EXCEPT ![f] = [i \in 1..Len(@) |-> IF @[i] = 0 THEN id ELSE @[i]]]
SrcRef(s, f, id) ==
    IF f = "" \/ id = Empty THEN s ELSE [s EXCEPT ![f] = Append(@, id)]

Running == panic = "" /\ compilation = NoResult /\ nstmts < MaxStmts
Step == nstmts' = nstmts + 1
Abort(what) ==
    /\ panic' = what
    /\ UNCHANGED <<ctxVars, where, block_kind, nstmts, src, compilation>>
InBlock == where # <<>>
InFeature == where # <<>> /\ where[1] = "feature"
InLookupBlock == where # <<>> /\ where[Len(where)] = "lookup"


\* validate_language_system: the statements that pass without an error
validate_language_system(s, l) ==
    /\ (s = "DFLT" /\ l = "dflt") => default_lang_systems = {}
    /\ s = "DFLT" => \A sl \in default_lang_systems : sl[1] = "DFLT"

\* compile: a languagesystem statement at top level
add_language_system(s, l) ==
    /\ Running /\ where = <<>>
    /\ validate_language_system(s, l)
    /\ default_lang_systems' = default_lang_systems \cup {<<s, l>>}
    /\ Step
    /\ UNCHANGED <<errors, tables, features, lookups, lookup_flags,
                   cur_mark_filter_set, cur_language_systems, cur_feature_name,
                   script, where, block_kind, src, panic, compilation, notLower>>

\* add_feature for an aalt block: a warning, and the block is skipped
add_feature_aalt ==
    /\ Running /\ where = <<>>
    /\ Len(errors) < MaxDiag
    /\ errors' = Append(errors, Diagnostic_warning("aalt feature is unimplemented"))
    /\ Step
    /\ UNCHANGED <<tables, features, default_lang_systems, lookups, lookup_flags,
                   cur_mark_filter_set, cur_language_systems, cur_feature_name,
                   script, where, block_kind, src, panic, compilation, notLower>>

\* add_feature up to the statements of the block
start_feature(feature_name) ==
    /\ Running /\ where = <<>>
    /\ IF cur_language_systems # {} \/ has_current(lookups)
       THEN Abort("start_feature")
       ELSE /\ cur_language_systems' =
                 IF default_lang_systems # {} THEN default_lang_systems
                 ELSE {<<SCRIPT_DFLT_TAG, LANG_DFLT_TAG>>}
            /\ cur_feature_name' = feature_name
            /\ lookup_flags' = 0
            /\ cur_mark_filter_set' = 0
            /\ where' = <<"feature">>
            /\ Step
            /\ UNCHANGED <<errors, tables, features, default_lang_systems, lookups,
                           script, block_kind, src, panic, compilation>>
    /\ UNCHANGED notLower

\* the block is left with its last lookup still open
end_feature_keeping_current ==
    /\ Running /\ where = <<"feature">>
    /\ cur_feature_name' = ""
    /\ cur_language_systems' = {}
    /\ lookup_flags' = 0
    /\ cur_mark_filter_set' = 0
    /\ where' = <<>>
    /\ Step
    /\ UNCHANGED <<errors, tables, features, default_lang_systems, lookups, script,
                   block_kind, src, panic, compilation, notLower>>

\* add_feature after the statements of the block
end_feature ==
    /\ Running /\ where = <<"feature">>
    /\ LET r == finish_current(lookups) IN
       IF r.some /\ r.name # ""
       THEN Abort("end_feature")
       ELSE /\ lookups' = r.L
            /\ features' = IF r.some
                           THEN add_lookup_to_feature(features, cur_language_systems,
                                                      r.id, cur_feature_name)
                           ELSE features
            /\ src' = IF r.some /\ r.id # Empty
                      THEN SrcClose(src, cur_feature_name, r.id) ELSE src
            /\ cur_feature_name' = ""
            /\ cur_language_systems' = {}
            /\ lookup_flags' = 0
            /\ cur_mark_filter_set' = 0
            /\ where' = <<>>
            /\ Step
            /\ UNCHANGED <<errors, tables, default_lang_systems, script, block_kind,
                           panic, compilation>>
    /\ UNCHANGED notLower

\* resolve_lookup_block up to the statements of the block
\* no statement inside a lookup block is taken for an error
nested_lookup_accepted(in_lookup) == FALSE

\* A lookup block among the statements of a lookup block: the parser reports
\* "lookups cannot be nested." and validate_lookup_block reports "lookup
\* blocks cannot contain other blocks"
nested_lookup_error(in_lookup) == in_lookup

\* statement: the keyword `lookup` inside a lookup block, a reference
\* included, is an error of the parser
lookup_kw_error(in_lookup) == in_lookup

start_lookup_block(name) ==
    /\ Running /\ ~nested_lookup_error(InLookupBlock)
    /\ LET r == finish_current(lookups) IN
       IF r.some /\ r.name # ""
       THEN Abort("start_lookup_block")
       ELSE /\ features' = IF r.some /\ cur_feature_name # ""
                           THEN add_lookup_to_feature(features, cur_language_systems,
                                                      r.id, cur_feature_name)
                           ELSE features
            /\ src' = IF r.some /\ r.id # Empty
                      THEN SrcClose(src, cur_feature_name, r.id) ELSE src
            /\ lookup_flags' = IF cur_feature_name = "" THEN 0 ELSE lookup_flags
            /\ cur_mark_filter_set' =
                 IF cur_feature_name = "" THEN 0 ELSE cur_mark_filter_set
            /\ lookups' = start_named(r.L, name)
            /\ where' = Append(where, "lookup")
            /\ block_kind' = ""
            /\ Step
            /\ UNCHANGED <<errors, tables, default_lang_systems, cur_language_systems,
                           cur_feature_name, script, panic, compilation>>
    /\ UNCHANGED notLower

\* resolve_lookup_block after the statements of the block
end_lookup_block ==
    /\ Running /\ InLookupBlock
    /\ LET r == finish_current(lookups) IN
       /\ lookups' = r.L
       /\ features' = IF cur_feature_name # "" /\ r.some
                      THEN add_lookup_to_feature(features, cur_language_systems,
                                                 r.id, cur_feature_name)
                      ELSE features
       /\ src' = IF r.some /\ r.id # Empty
                 THEN SrcClose(src, cur_feature_name, r.id) ELSE src
       /\ lookup_flags' = IF cur_feature_name = "" THEN 0 ELSE lookup_flags
       /\ cur_mark_filter_set' =
            IF cur_feature_name = "" THEN 0 ELSE cur_mark_filter_set
    /\ where' = SubSeq(where, 1, Len(where) - 1)
    /\ block_kind' = ""
    /\ Step
    /\ UNCHANGED <<errors, tables, default_lang_systems, cur_language_systems,
                   cur_feature_name, script, panic, compilation, notLower>>


\* The list set_script_language stores under the new key
inherited_lookups(feats, feature, language, exclude_dflt) ==
    LET dflt_key == FeatureKey_language(FeatureKey_for_feature(feature), language)
        wants_dflt == dflt_key.language = "dflt" /\ ~exclude_dflt
    IN  IF wants_dflt THEN MapGet(feats, dflt_key, <<>>) ELSE <<>>

set_script_language(scr, language, exclude_dflt, errs) ==
    IF cur_feature_name \in {AALT_TAG, SIZE_TAG}
    THEN /\ errors' = Append(errs, Diagnostic_error("language/script not allowed"))
         /\ UNCHANGED <<lookups, features, cur_language_systems, src>>
    ELSE IF cur_feature_name = ""
    THEN /\ errors' = Append(errs, Diagnostic_error("language/script only allowed in feature block"))
         /\ UNCHANGED <<lookups, features, cur_language_systems, src>>
    ELSE LET r == finish_current(lookups)
             feats == IF r.some
                      THEN add_lookup_to_feature(features, cur_language_systems,
                                                 r.id, cur_feature_name)
                      ELSE features
             real_key == FeatureKey_script(
                             FeatureKey_language(
                                 FeatureKey_for_feature(cur_feature_name), language),
                             scr)
         IN  /\ errors' = errs
             /\ lookups' = r.L
             /\ src' = IF r.some /\ r.id # Empty
                       THEN SrcClose(src, cur_feature_name, r.id) ELSE src
             /\ features' = MapPut(feats, real_key,
                                   inherited_lookups(feats, cur_feature_name, language,
                                                     exclude_dflt))
             /\ cur_language_systems' = {<<real_key.script, real_key.language>>}

set_script(t) ==
    /\ Running /\ InFeature
    /\ script' = t
    /\ set_script_language(t, LANG_DFLT_TAG, FALSE, errors)
    /\ Step
    /\ UNCHANGED <<tables, default_lang_systems, lookup_flags, cur_mark_filter_set,
                   cur_feature_name, where, block_kind, panic, compilation, notLower>>

set_language(t, exclude_dflt, required) ==
    /\ Running /\ InFeature
    /\ required => Len(errors) < MaxDiag
    /\ LET scr == IF script # "" THEN script ELSE SCRIPT_DFLT_TAG
           errs == IF required
                   THEN Append(errors, Diagnostic_warning("required is not implemented"))
                   ELSE errors
       IN  /\ set_script_language(scr, t, exclude_dflt, errs)
           /\ Step
    /\ UNCHANGED <<tables, default_lang_systems, lookup_flags, cur_mark_filter_set,
                   cur_feature_name, script, where, block_kind, panic, compilation,
                   notLower>>

set_lookup_flag(flags) ==
    /\ Running /\ InBlock
    /\ lookup_flags' = flags
    /\ Step
    /\ UNCHANGED <<errors, tables, features, default_lang_systems, lookups,
                   cur_mark_filter_set, cur_language_systems, cur_feature_name,
                   script, where, block_kind, src, panic, compilation, notLower>>

\* ensure_current_lookup_type, followed by the rule going into the current
\* lookup
add_rule(kind) ==
    /\ Running /\ InBlock
    /\ InLookupBlock => block_kind \in {"", kind}
    /\ needs_new_lookup(lookups, kind) =>
          Len(lookups.done) + (IF has_current(lookups) THEN 1 ELSE 0) < MaxLookups
    /\ IF needs_new_lookup(lookups, kind)
       THEN LET r == start_lookup(lookups, kind, lookup_flags, cur_mark_filter_set) IN
            IF r.some /\ cur_feature_name = ""
            THEN Abort("ensure_current_lookup_type")
            ELSE /\ lookups' = r.L
                 /\ features' = IF r.some
                                THEN add_lookup_to_feature(features, cur_language_systems,
                                                           r.id, cur_feature_name)
                                ELSE features
                 /\ src' = SrcOpen(IF r.some THEN SrcClose(src, cur_feature_name, r.id)
                                   ELSE src,
                                   cur_feature_name)
                 /\ block_kind' = IF InLookupBlock THEN kind ELSE block_kind
                 /\ Step
                 /\ UNCHANGED <<errors, tables, default_lang_systems, lookup_flags,
                                cur_mark_filter_set, cur_language_systems,
                                cur_feature_name, script, where, panic, compilation>>
       ELSE /\ block_kind' = IF InLookupBlock THEN kind ELSE block_kind
            /\ Step
            /\ UNCHANGED <<ctxVars, where, src, panic, compilation>>
    /\ UNCHANGED notLower

\* add_single_sub with inputs validate_single_sub_inputs rejects
add_single_sub_invalid ==
    /\ Running /\ InBlock
    /\ InLookupBlock => block_kind \in {"", "GsubType1"}
    /\ Len(errors) < MaxDiag
    /\ errors' = Append(errors, Diagnostic_error("cannot sub glyph by glyph class"))
    /\ block_kind' = IF InLookupBlock THEN "GsubType1" ELSE block_kind
    /\ Step
    /\ UNCHANGED <<tables, features, default_lang_systems, lookups, lookup_flags,
                   cur_mark_filter_set, cur_language_systems, cur_feature_name,
                   script, where, src, panic, compilation, notLower>>

\* Names the validator has seen a lookup block for: the registered ones and
\* the one of the block being lowered
DeclaredNames == DOMAIN lookups.named \cup ({lookups.current_name} \ {""})

resolve_lookup_ref(name) ==
    /\ Running /\ InBlock /\ ~lookup_kw_error(InLookupBlock)
    /\ name \in DeclaredNames
    /\ cur_feature_name = "" => Len(errors) < MaxDiag
    /\ LET r == get_named(lookups, name) IN
       IF ~r.some
       THEN Abort("resolve_lookup_ref")
       ELSE /\ IF cur_feature_name # ""
               THEN /\ features' = add_lookup_to_feature(features, cur_language_systems,
                                                         r.id, cur_feature_name)
                    /\ errors' = errors
               ELSE /\ errors' = Append(errors, Diagnostic_warning(
                                     "lookup reference outside of feature does nothing"))
                    /\ features' = features
            /\ src' = SrcRef(src, cur_feature_name, r.id)
            /\ Step
            /\ UNCHANGED <<tables, default_lang_systems, lookups, lookup_flags,
                           cur_mark_filter_set, cur_language_systems, cur_feature_name,
                           script, where, block_kind, panic, compilation>>
    /\ UNCHANGED notLower


\* resolve_table for a GDEF block
resolve_gdef ==
    /\ Running /\ where = <<>>
    /\ tables' = [tables EXCEPT !.GDEF = "declared"]
    /\ Step
    /\ UNCHANGED <<errors, features, default_lang_systems, lookups, lookup_flags,
                   cur_mark_filter_set, cur_language_systems, cur_feature_name,
                   script, where, block_kind, src, panic, compilation, notLower>>

\* infer_glyph_classes: the inferred table is stored when it is not empty,
\* which takes a base glyph seen by a mark attachment rule
infer_glyph_classes(t, L) ==
    IF \E i \in 1..Len(L.done) : L.done[i].kind = "GposType4"
    THEN [t EXCEPT !.GDEF = "inferred"]
    ELSE t

build_ignoring_errors ==
    LET t == IF tables.GDEF = "none" THEN infer_glyph_classes(tables, lookups)
             ELSE tables
    IN  [ok |-> TRUE, warnings |-> errors, lookups |-> lookups,
         features |-> features, tables |-> t]

\* the diagnostics are not looked at
build_always_ok == build_ignoring_errors

build_result ==
    IF \E i \in 1..Len(errors) : is_error(errors[i])
    THEN [ok |-> FALSE, errors |-> errors]
    ELSE build_ignoring_errors

build ==
    /\ panic = "" /\ compilation = NoResult /\ where = <<>>
    /\ compilation' = build_result
    /\ tables' = IF compilation'.ok THEN compilation'.tables ELSE tables
    /\ UNCHANGED <<errors, features, default_lang_systems, lookups, lookup_flags,
                   cur_mark_filter_set, cur_language_systems, cur_feature_name,
                   script, walkVarsButResult, notLower>>

InitLower == TreeIdle /\ EditIdle /\ LowerIdle /\ RestIdle

NextLower ==
    \/ \E s \in ScriptTags, l \in LangTags : add_language_system(s, l)
    \/ add_feature_aalt
    \/ \E f \in FeatureTags : start_feature(f)
    \/ end_feature
    \/ \E n \in LookupNames : start_lookup_block(n)
    \/ end_lookup_block
    \/ \E t \in ScriptTags : set_script(t)
    \/ \E t \in LangTags, x \in BOOLEAN, r \in BOOLEAN : set_language(t, x, r)
    \/ set_lookup_flag(IGNORE_MARKS)
    \/ \E k \in RuleKinds : add_rule(k)
    \/ add_single_sub_invalid
    \/ \E n \in LookupNames : resolve_lookup_ref(n)
    \/ resolve_gdef
    \/ build

SpecLower == InitLower /\ [][NextLower]_vars


-----------------------------------------------------------------------------
\* a occurs in b as a subsequence, from positions i of a and j of b on
RECURSIVE Embeds(_, _, _, _)
Embeds(a, i, b, j) ==
    IF i > Len(a) THEN TRUE
    ELSE IF j > Len(b) THEN FALSE
    ELSE IF a[i] = b[j] THEN Embeds(a, i + 1, b, j + 1)
    ELSE Embeds(a, i, b, j + 1)

IsSubseq(a, b) == Embeds(a, 1, b, 1)

(* C3: lookup registration ordering.  Once a feature block is lowered, the   *)
(* lookup ids in the list of every feature key appear in the order in which  *)
(* the lookups occur in the source of the feature: anonymous rule runs,      *)
(* named lookup blocks and lookup references alike.                          *)
LookupRegistrationOrder ==
    (panic = "" /\ cur_feature_name = "") =>
        \A key \in DOMAIN features : IsSubseq(features[key], src[key.feature])

(* C4: default-language inheritance.  A `language t` statement without       *)
(* exclude_dflt leaves the list of (feature, cur_script, t) equal to the     *)
(* list of (feature, cur_script, dflt), cur_script being DFLT when no script *)
(* was set; with exclude_dflt it leaves the list empty.                      *)
DefaultLanguageInheritance ==
    [][\A t \in LangTags, x \in BOOLEAN, r \in BOOLEAN :
          set_language(t, x, r) =>
              LET scr == IF script # "" THEN script ELSE SCRIPT_DFLT_TAG
                  key == [feature |-> cur_feature_name, script |-> scr,
                          language |-> t]
                  dflt == [key EXCEPT !.language = LANG_DFLT_TAG]
              IN  /\ key \in DOMAIN features'
                  /\ features'[key] =
                        IF x THEN <<>> ELSE MapGet(features', dflt, <<>>)]_vars


(* C7: success/failure determination.  build returns Err with all the        *)
(* accumulated diagnostics exactly when one of them is an error; otherwise   *)
(* it returns a Compilation whose warnings are the accumulated diagnostics,  *)
(* with the lookups, features and tables of the context.                     *)
BuildOutcome ==
    compilation # NoResult =>
        /\ compilation.ok <=> ~(\E i \in 1..Len(errors) : is_error(errors[i]))
        /\ ~compilation.ok => compilation.errors = errors
        /\ compilation.ok =>
              /\ compilation.warnings = errors
              /\ \A i \in 1..Len(compilation.warnings) :
                    ~is_error(compilation.warnings[i])
              /\ compilation.lookups = lookups
              /\ compilation.features = features
              /\ compilation.tables = tables

WitnessBuildOutcome ==
    /\ compilation # NoResult
    /\ ~compilation.ok
    /\ Len(compilation.errors) > 0
    /\ features # EmptyMap

\* Scenario 1 with its last statement still to come: the two languagesystem
\* statements, the start of feature liga and the ligature rule are lowered
Scenario1BeforeEnd ==
    /\ nstmts = 4
    /\ default_lang_systems = {<<"DFLT", "dflt">>, <<"latn", "TRK">>}
    /\ where = <<"feature">>
    /\ cur_feature_name = "liga"
    /\ lookups = [AllLookups_default EXCEPT
                     !.current = SomeLookup_new("GsubType4", 0, 0)]

LigaKey(s, l) == [feature |-> "liga", script |-> s, language |-> l]

(* C9 as stated: at the end of scenario 1 each of (liga, DFLT, dflt),        *)
(* (liga, latn, dflt) and (liga, latn, TRK) exists and references exactly    *)
(* one lookup, the same GSUB type 4 lookup.                                  *)
Scenario1ThreeKeys ==
    [][(Scenario1BeforeEnd /\ end_feature) =>
          /\ lookups'.done = <<SomeLookup_new("GsubType4", 0, 0)>>
          /\ \A key \in {LigaKey("DFLT", "dflt"), LigaKey("latn", "dflt"),
                         LigaKey("latn", "TRK")} :
                key \in DOMAIN features' /\ features'[key] = <<1>>]_vars

(* C9, amended: at the end of scenario 1 the feature keys are exactly the    *)
(* declared language systems of liga, (liga, DFLT, dflt) and                 *)
(* (liga, latn, TRK); each references exactly one lookup, the same GSUB      *)
(* type 4 lookup, and no key (liga, latn, dflt) exists.                      *)
Scenario1DeclaredKeys ==
    [][(Scenario1BeforeEnd /\ end_feature) =>
          /\ lookups'.done = <<SomeLookup_new("GsubType4", 0, 0)>>
          /\ DOMAIN features' = {LigaKey("DFLT", "dflt"), LigaKey("latn", "TRK")}
          /\ \A key \in DOMAIN features' : features'[key] = <<1>>]_vars

WitnessScenario1 ==
    /\ nstmts = 5 /\ where = <<>> /\ panic = ""
    /\ default_lang_systems = {<<"DFLT", "dflt">>, <<"latn", "TRK">>}
    /\ src["liga"] = <<1>>
    /\ LigaKey("latn", "TRK") \in DOMAIN features
    /\ lookups.done = <<SomeLookup_new("GsubType4", 0, 0)>>

(* C10: at most one lookup is current, every lookup id in the list of a      *)
(* feature key is the id of a finished lookup, never of the open one, and no *)
(* lookup is current and no language system is left over when a feature      *)
(* block starts: the assertions of start_feature never fail.                 *)
CompletedLookupsOnly ==
    /\ panic # "start_feature"
    /\ \A key \in DOMAIN features :
          \A i \in 1..Len(features[key]) :
             features[key][i] \in 1..Len(lookups.done)
    /\ where = <<>> => ~has_current(lookups) /\ cur_language_systems = {}

WitnessCompletedLookupsOnly ==
    /\ has_current(lookups)
    /\ Len(lookups.done) >= 2
    /\ cur_feature_name # ""
    /\ src[cur_feature_name] # <<>> /\ src[cur_feature_name][1] # 0
    /\ \E key \in DOMAIN features : Len(features[key]) >= 2


-----------------------------------------------------------------------------
(* Mark classes of one mark-to-base lookup: compile_ctx.rs add_mark_to_base, *)
(* builders.rs MarkList                                                      *)

MaxMarkOps == 3     \* insertions and rules on the subtable
MaxMembers == 2     \* glyphs of a mark class

MarkGlyphs == {"acute", "grave"}
MarkClassIds == {"M0", "M1"}
Anchors == {"a1", "a2"}

MarkRecord_new(class, anchor) == [mark_class |-> class, anchor |-> anchor]
MarkOk == [err |-> FALSE]
PreviouslyAssignedClass(class) == [err |-> TRUE, class |-> class]

\* BTreeMap::insert followed by the comparison with the record it returned
MarkList_insert_op(m, glyph, class, anchor) ==
    [marks |-> MapPut(m, glyph, MarkRecord_new(class, anchor)),
     result |-> IF glyph \in DOMAIN m /\ m[glyph].mark_class # class
                THEN PreviouslyAssignedClass(m[glyph].mark_class)
                ELSE MarkOk]

MarkList_insert(glyph, class, anchor) ==
    /\ mark_ops < MaxMarkOps
    /\ LET r == MarkList_insert_op(marks, glyph, class, anchor) IN
       /\ marks' = r.marks
       /\ mark_result' = r.result
    /\ mark_ops' = mark_ops + 1
    /\ UNCHANGED <<bases, notMark>>

\* The loop of add_mark_to_base over the glyphs of the mark class, from
\* member i on: it returns at the first glyph found in another class
RECURSIVE insert_members(_, _, _, _)
insert_members(m, members, i, class) ==
    IF i > Len(members) THEN [marks |-> m, result |-> MarkOk]
    ELSE LET r == MarkList_insert_op(m, members[i].glyph, class, members[i].anchor)
         IN  IF r.result.err THEN r
             ELSE insert_members(r.marks, members, i + 1, class)

MarkClassMembers ==
    {s \in SeqsUpTo([glyph : MarkGlyphs, anchor : Anchors], MaxMembers) : Len(s) > 0}

add_mark_to_base(class, members) ==
    /\ mark_ops < MaxMarkOps
    /\ LET r == insert_members(marks, members, 1, class) IN
       /\ marks' = r.marks
       /\ mark_result' = r.result
       /\ bases' = IF r.result.err THEN bases ELSE bases \cup {class}
    /\ mark_ops' = mark_ops + 1
    /\ UNCHANGED notMark

InitMark == TreeIdle /\ EditIdle /\ LowerIdle /\ RestIdle

NextMark ==
    \/ \E g \in MarkGlyphs, c \in MarkClassIds, a \in Anchors : MarkList_insert(g, c, a)
    \/ \E c \in MarkClassIds, ms \in MarkClassMembers : add_mark_to_base(c, ms)

SpecMark == InitMark /\ [][NextMark]_vars

\* the glyph is in the subtable under another class
Conflicts(glyph, class) == glyph \in DOMAIN marks /\ marks[glyph].mark_class # class

(* C5: mark class disjointness within a lookup.  When a glyph is added under *)
(* mark class C2 while the lookup assigns it to another class C1, an error   *)
(* naming C1 is reported and the assignment is not committed: the map still  *)
(* maps the glyph to C1 with its earlier anchor.                             *)
MarkClassDisjointness ==
    [][/\ \A g \in MarkGlyphs, c \in MarkClassIds, a \in Anchors :
             (MarkList_insert(g, c, a) /\ Conflicts(g, c)) =>
                 /\ mark_result' = PreviouslyAssignedClass(marks[g].mark_class)
                 /\ marks'[g] = marks[g]
       /\ \A c \in MarkClassIds, ms \in MarkClassMembers :
             (add_mark_to_base(c, ms) /\ \E i \in 1..Len(ms) : Conflicts(ms[i].glyph, c)) =>
                 LET first == CHOOSE i \in 1..Len(ms) :
                                 /\ Conflicts(ms[i].glyph, c)
                                 /\ \A j \in 1..(i - 1) : ~Conflicts(ms[j].glyph, c)
                     g == ms[first].glyph
                 IN  /\ mark_result' = PreviouslyAssignedClass(marks[g].mark_class)
                     /\ marks'[g] = marks[g]]_vars


-----------------------------------------------------------------------------
(* Interning of glyph classes: compile_ctx.rs resolve_mark_attach_class,     *)
(* resolve_mark_filter_set                                                   *)

MaxCalls == 3       \* calls of the two resolve functions
\* glyph classes as written: orders and repetitions of the glyphs 1, 2, 3
GlyphClasses ==
    {<<>>, <<1>>, <<2>>, <<1, 2>>, <<2, 1>>, <<1, 1>>, <<2, 1, 2>>, <<3, 1>>, <<1, 3, 3>>}

\* Insertion of a glyph into a sorted sequence
RECURSIVE SortedInsert(_, _)
SortedInsert(s, g) ==
    IF s = <<>> THEN <<g>>
    ELSE IF g <= Head(s) THEN <<g>> \o s
    ELSE <<Head(s)>> \o SortedInsert(Tail(s), g)

RECURSIVE Sort(_)
Sort(s) == IF s = <<>> THEN <<>> ELSE SortedInsert(Sort(Tail(s)), Head(s))

\* Removal of repeated neighbours
RECURSIVE Dedupe(_)
Dedupe(s) ==
    IF Len(s) < 2 THEN s
    ELSE IF s[1] = s[2] THEN Dedupe(Tail(s))
    ELSE <<Head(s)>> \o Dedupe(Tail(s))

sort_and_dedupe(glyphs) == Dedupe(Sort(glyphs))

\* the glyph class as written is the key
resolve_mark_attach_class_raw_key(table, glyphs) ==
    IF glyphs \in DOMAIN table
    THEN [id |-> table[glyphs], table |-> table]
    ELSE LET id == Cardinality(DOMAIN table) + 1
         IN  [id |-> id, table |-> MapPut(table, glyphs, id)]

resolve_mark_attach_class_op(table, glyphs) ==
    LET mark_set == sort_and_dedupe(glyphs) IN
    IF mark_set \in DOMAIN table
    THEN [id |-> table[mark_set], table |-> table]
    ELSE LET id == (Cardinality(DOMAIN table) % 65536) + 1
         IN  [id |-> id, table |-> MapPut(table, mark_set, id)]

resolve_mark_filter_set_op(table, glyphs) ==
    LET set == sort_and_dedupe(glyphs)
        id == Cardinality(DOMAIN table) + 1
        t2 == IF set \in DOMAIN table THEN table ELSE MapPut(table, set, id)
    IN  [id |-> t2[set], table |-> t2]

resolve_mark_attach_class(glyphs) ==
    /\ Len(intern_calls) < MaxCalls
    /\ LET r == resolve_mark_attach_class_op(mark_attach_class_id, glyphs) IN
       /\ mark_attach_class_id' = r.table
       /\ intern_calls' = Append(intern_calls,
                                 [table |-> "attach", glyphs |-> glyphs, id |-> r.id])
    /\ UNCHANGED <<mark_filter_sets, notIntern>>

resolve_mark_filter_set(glyphs) ==
    /\ Len(intern_calls) < MaxCalls
    /\ LET r == resolve_mark_filter_set_op(mark_filter_sets, glyphs) IN
       /\ mark_filter_sets' = r.table
       /\ intern_calls' = Append(intern_calls,
                                 [table |-> "filter", glyphs |-> glyphs, id |-> r.id])
    /\ UNCHANGED <<mark_attach_class_id, notIntern>>

InitIntern == TreeIdle /\ EditIdle /\ LowerIdle /\ RestIdle

NextIntern ==
    \/ \E g \in GlyphClasses : resolve_mark_attach_class(g)
    \/ \E g \in GlyphClasses : resolve_mark_filter_set(g)

SpecIntern == InitIntern /\ [][NextIntern]_vars

GlyphSet(glyphs) == {glyphs[i] : i \in 1..Len(glyphs)}

\* The glyph sets call i or an earlier call of the same table has used
SetsUpTo(i) ==
    {GlyphSet(intern_calls[j].glyphs) :
        j \in {k \in 1..i : intern_calls[k].table = intern_calls[i].table}}

\* The first call of the table of call i with the glyph set of call i
FirstUse(i) ==
    CHOOSE j \in 1..i :
        /\ intern_calls[j].table = intern_calls[i].table
        /\ GlyphSet(intern_calls[j].glyphs) = GlyphSet(intern_calls[i].glyphs)
        /\ \A k \in 1..(j - 1) :
              ~(/\ intern_calls[k].table = intern_calls[i].table
                /\ GlyphSet(intern_calls[k].glyphs) = GlyphSet(intern_calls[i].glyphs))

(* C6: glyph-class canonicalisation.  sort_and_dedupe is idempotent and      *)
(* gives one key to all orders and repetitions of the same glyphs, so each   *)
(* of the two resolve functions returns the same id for glyph classes with   *)
(* the same glyph set, distinct ids for different glyph sets, and the ids    *)
(* are 1, 2, 3, ... in the order of first use.                               *)
GlyphClassCanonicalisation ==
    /\ \A i \in 1..Len(intern_calls) :
          LET s == intern_calls[i].glyphs IN
          /\ sort_and_dedupe(sort_and_dedupe(s)) = sort_and_dedupe(s)
          /\ \A j \in 1..Len(intern_calls) :
                LET t == intern_calls[j].glyphs IN
                GlyphSet(s) = GlyphSet(t) <=> sort_and_dedupe(s) = sort_and_dedupe(t)
    /\ \A i \in 1..Len(intern_calls) :
          intern_calls[i].id = Cardinality(SetsUpTo(FirstUse(i)))

WitnessGlyphClassCanonicalisation ==
    /\ Len(intern_calls) = 3
    /\ \A i \in 1..3 : intern_calls[i].table = "attach"
    /\ intern_calls[1].glyphs = <<2, 1>>
    /\ intern_calls[2].glyphs = <<1>>
    /\ intern_calls[3].glyphs = <<1, 2>>
    /\ intern_calls[3].id = 1 /\ intern_calls[2].id = 2


-----------------------------------------------------------------------------
(* The parser inside a table block: grammar/table.rs.  A token is its kind;  *)
(* "TableTag" is an identifier that spells the tag of the table.             *)

MaxTokens == 3      \* tokens after `table <tag> {`
MaxIter == 3        \* iterations of the entry loop followed

TableTags == {"BASE", "GDEF", "head", "hhea", "name"}

TOP_LEVEL == {"FeatureKw"}
TOP_SEMI == TOP_LEVEL \cup {"Semi"}

MINMAX == {"HorizAxisMinMaxKw", "VertAxisMinMaxKw"}
TAG_LIST == {"HorizAxisBaseTagListKw", "VertAxisBaseTagListKw"}
SCRIPT_LIST == {"HorizAxisBaseScriptListKw", "VertAxisBaseScriptListKw"}
BASE_KEYWORDS == MINMAX \cup TAG_LIST \cup SCRIPT_LIST
EAT_UNTIL == TOP_LEVEL \cup BASE_KEYWORDS \cup {"RBrace"}
RECORD_RECOVERY == {"Tag", "Number", "Comma"}

GDEF_KEYWORDS ==
    {"GlyphClassDefKw", "AttachKw", "LigatureCaretByDevKw",
     "LigatureCaretByIndexKw", "LigatureCaretByPosKw"}
CARET_POS_OR_IDX == {"LigatureCaretByPosKw", "LigatureCaretByIndexKw"}

HHEA_KEYWORDS == {"CaretOffsetKw", "AscenderKw", "DescenderKw", "LineGapKw"}
NUM_TYPES == {"Number", "Octal", "Hex"}

CommonKinds == {"FeatureKw", "RBrace", "Semi", "Ident", "Number", "Comma", "TableTag"}

\* The kinds of token the streams of a table are drawn from
TableKinds(tag) ==
    CommonKinds \cup
    CASE tag = "BASE" -> BASE_KEYWORDS
      [] tag = "GDEF" -> GDEF_KEYWORDS \cup {"NamedGlyphClass"}
      [] tag = "head" -> {"FontRevisionKw", "Float"}
      [] tag = "hhea" -> {"CaretOffsetKw", "LineGapKw"}
      [] tag = "name" -> {"NameIdKw", "String", "Hex"}

\* ---- Parser ----
at_eof(toks, pos) == pos > Len(toks)

nth_kind(toks, pos) ==
    IF at_eof(toks, pos) THEN "Eof"
    ELSE IF toks[pos] = "TableTag" THEN "Ident"
    ELSE toks[pos]

matches(toks, pos, set) == nth_kind(toks, pos) \in set

eat_raw(toks, pos) == IF at_eof(toks, pos) THEN pos ELSE pos + 1

eat(toks, pos, set) == IF matches(toks, pos, set) THEN pos + 1 ELSE pos

RECURSIVE eat_while(_, _, _)
eat_while(toks, pos, set) ==
    IF matches(toks, pos, set) THEN eat_while(toks, pos + 1, set) ELSE pos

RECURSIVE eat_until(_, _, _)
eat_until(toks, pos, set) ==
    IF at_eof(toks, pos) \/ matches(toks, pos, set) THEN pos
    ELSE eat_until(toks, pos + 1, set)

\* the error swallows the token unless recovery can resume at it
err_recover(toks, pos, recovery) ==
    IF matches(toks, pos, recovery) \/ at_eof(toks, pos) THEN pos ELSE pos + 1

expect_recover(toks, pos, set, recovery) ==
    IF matches(toks, pos, set) THEN pos + 1 ELSE err_recover(toks, pos, recovery)

\* ---- grammar/glyph.rs ----
eat_named_or_unnamed_glyph_class(toks, pos, recovery) ==
    eat(toks, pos, {"NamedGlyphClass"})

eat_glyph_or_glyph_class(toks, pos, recovery) ==
    eat(toks, pos, {"Ident", "NamedGlyphClass"})


\* ---- mod base ----
expect_script_record(toks, pos, recovery) ==
    IF ~matches(toks, pos, {"Ident"}) THEN pos
    ELSE LET p1 == eat(toks, pos, {"Ident"})
             p2 == expect_recover(toks, p1, {"Ident"}, recovery \cup RECORD_RECOVERY)
             p3 == expect_recover(toks, p2, {"Number"}, recovery \cup RECORD_RECOVERY)
         IN  eat_while(toks, p3, {"Number"})

RECURSIVE more_script_records(_, _, _)
more_script_records(toks, pos, recovery) ==
    IF matches(toks, pos, {"Comma"})
    THEN more_script_records(toks, expect_script_record(toks, pos + 1, recovery),
                             recovery)
    ELSE pos

base_table_entry(toks, pos, recovery0) ==
    LET recovery == recovery0 \cup BASE_KEYWORDS IN
    IF matches(toks, pos, TAG_LIST)
    THEN LET p1 == eat(toks, pos, TAG_LIST)
             p2 == expect_recover(toks, p1, {"Ident"}, recovery \cup {"Semi"})
             p3 == eat_while(toks, p2, {"Ident"})
         IN  expect_recover(toks, p3, {"Semi"}, recovery)
    ELSE IF matches(toks, pos, SCRIPT_LIST)
    THEN LET p1 == eat(toks, pos, SCRIPT_LIST)
             p2 == expect_script_record(toks, p1, recovery)
             p3 == more_script_records(toks, p2, recovery)
         IN  expect_recover(toks, p3, {"Semi"}, recovery)
    ELSE IF matches(toks, pos, MINMAX)
    THEN eat_until(toks, pos, EAT_UNTIL)
    ELSE eat_until(toks, expect_recover(toks, pos, BASE_KEYWORDS, EAT_UNTIL), EAT_UNTIL)

\* ---- mod gdef ----
\* Attach and LigatureCaretByPos / LigatureCaretByIndex, after the keyword
glyphs_then_numbers(toks, p1, recovery) ==
    LET g == eat_glyph_or_glyph_class(toks, p1, recovery)
        p2 == IF g = p1 THEN err_recover(toks, p1, recovery) ELSE g
        p3 == expect_recover(toks, p2, {"Number"}, recovery)
        p4 == IF matches(toks, p2, {"Number"}) THEN eat_while(toks, p3, {"Number"})
              ELSE p3
    IN  expect_recover(toks, p4, {"Semi"}, recovery)

gdef_table_entry(toks, pos, recovery0) ==
    LET until == recovery0 \cup GDEF_KEYWORDS \cup {"RBrace"}
        recovery == recovery0 \cup GDEF_KEYWORDS \cup {"Semi"}
    IN
    IF matches(toks, pos, {"GlyphClassDefKw"})
    THEN LET class_recovery == recovery \cup {"Comma", "NamedGlyphClass", "LSquare"}
             p1 == eat(toks, pos, {"GlyphClassDefKw"})
             p2 == eat_named_or_unnamed_glyph_class(toks, p1, class_recovery)
             p3 == expect_recover(toks, p2, {"Comma"}, class_recovery)
             p4 == eat_named_or_unnamed_glyph_class(toks, p3, class_recovery)
             p5 == expect_recover(toks, p4, {"Comma"}, class_recovery)
             p6 == eat_named_or_unnamed_glyph_class(toks, p5, class_recovery)
             p7 == expect_recover(toks, p6, {"Comma"}, class_recovery)
             p8 == eat_named_or_unnamed_glyph_class(toks, p7, class_recovery)
         IN  expect_recover(toks, p8, {"Semi"}, recovery)
    ELSE IF matches(toks, pos, {"AttachKw"})
    THEN glyphs_then_numbers(toks, eat(toks, pos, {"AttachKw"}), recovery)
    ELSE IF matches(toks, pos, {"LigatureCaretByDevKw"})
    THEN eat_until(toks, pos, until)
    ELSE IF matches(toks, pos, CARET_POS_OR_IDX)
    THEN glyphs_then_numbers(toks, eat(toks, pos, CARET_POS_OR_IDX), recovery)
    ELSE eat_until(toks, expect_recover(toks, pos, GDEF_KEYWORDS, until), until)

\* ---- mod head ----
head_table_entry(toks, pos, recovery) ==
    IF matches(toks, pos, {"FontRevisionKw"})
    THEN LET p1 == eat(toks, pos, {"FontRevisionKw"})
             p2 == expect_recover(toks, p1, {"Float"}, recovery \cup {"Semi", "RBrace"})
         IN  expect_recover(toks, p2, {"Semi"}, recovery \cup {"RBrace"})
    ELSE eat_until(toks,
                   expect_recover(toks, pos, {"FontRevisionKw"},
                                  recovery \cup {"Semi", "RBrace"}),
                   recovery \cup {"FontRevisionKw", "RBrace"})

\* ---- mod hhea ----
hhea_table_entry(toks, pos, recovery0) ==
    LET recovery == recovery0 \cup HHEA_KEYWORDS IN
    IF matches(toks, pos, HHEA_KEYWORDS)
    THEN LET p1 == eat(toks, pos, HHEA_KEYWORDS)
             p2 == expect_recover(toks, p1, {"Number"}, recovery \cup {"Semi", "RBrace"})
         IN  expect_recover(toks, p2, {"Semi"}, recovery \cup {"RBrace"})
    ELSE eat_until(toks,
                   expect_recover(toks, pos, HHEA_KEYWORDS,
                                  recovery \cup {"Semi", "RBrace"}),
                   recovery \cup {"RBrace"})

\* ---- mod name ----
expect_name_record(toks, pos, recovery) ==
    LET p1 == expect_recover(toks, pos, {"Number"}, recovery \cup {"Semi"})
        p2 == eat(toks, p1, NUM_TYPES)
        p3 == eat(toks, p2, NUM_TYPES)
        p4 == eat(toks, p3, NUM_TYPES)
    IN  expect_recover(toks, p4, {"String"}, recovery \cup {"Semi"})

name_table_entry(toks, pos, recovery0) ==
    LET recovery == recovery0 \cup {"NameIdKw", "RBrace"} IN
    IF matches(toks, pos, {"NameIdKw"})
    THEN LET p1 == eat(toks, pos, {"NameIdKw"})
             p2 == expect_name_record(toks, p1, recovery)
         IN  expect_recover(toks, p2, {"Semi"}, recovery)
    ELSE eat_until(toks,
                   expect_recover(toks, pos, {"NameIdKw"}, recovery \cup {"Semi"}),
                   recovery)

\* table: the entry function of each known table
table_fn(tag, toks, pos, recovery) ==
    CASE tag = "BASE" -> base_table_entry(toks, pos, recovery)
      [] tag = "GDEF" -> gdef_table_entry(toks, pos, recovery)
      [] tag = "head" -> head_table_entry(toks, pos, recovery)
      [] tag = "hhea" -> hhea_table_entry(toks, pos, recovery)
      [] tag = "name" -> name_table_entry(toks, pos, recovery)

\* the condition of the entry loop of table_impl
more_entries(toks, pos) ==
    ~at_eof(toks, pos) /\ ~matches(toks, pos, TOP_LEVEL \cup {"RBrace"})

\* one iteration of the entry loop of table_impl
table_impl_entry ==
    /\ parse_pc = "entries"
    /\ parse_iter < MaxIter
    /\ more_entries(tokens, parse_pos)
    /\ parse_pos' = table_fn(table_tag, tokens, parse_pos, TOP_LEVEL)
    /\ parse_iter' = parse_iter + 1
    /\ UNCHANGED <<tokens, table_tag, parse_pc, notTable>>

\* table_impl after the entry loop
table_impl_end ==
    /\ parse_pc = "entries"
    /\ ~more_entries(tokens, parse_pos)
    /\ LET p1 == expect_recover(tokens, parse_pos, {"RBrace"}, TOP_SEMI)
           p2 == eat_raw(tokens, p1)
       IN  parse_pos' = expect_recover(tokens, p2, {"Semi"}, TOP_LEVEL)
    /\ parse_pc' = "done"
    /\ UNCHANGED <<tokens, table_tag, parse_iter, notTable>>

\* table_impl with the tag and the opening brace eaten
InitTable ==
    /\ TreeIdle /\ EditIdle /\ LowerIdle /\ MarkIdle /\ InternIdle /\
       GdefIdle /\ ValidateIdle /\ StatIdle /\ SingleSubIdle /\
       SinglePosIdle /\ MarkBaseIdle /\ EnumIdle /\ FeatIdle /\ NameIdle
    /\ table_tag \in TableTags
    /\ tokens \in SeqsUpTo(TableKinds(table_tag), MaxTokens)
    /\ parse_pos = 1
    /\ parse_pc = "entries"
    /\ parse_iter = 0

NextTable == table_impl_entry \/ table_impl_end

SpecTable == InitTable /\ [][NextTable]_vars

(* C8: the parser completes on table blocks.  Every iteration of the entry   *)
(* loop of table_impl consumes at least one token, for every known table and *)
(* every token an entry can start with.                                      *)
TableEntryConsumes ==
    [][parse_iter' > parse_iter => parse_pos' > parse_pos]_vars


(* C11: named lookup blocks are never nested.  A lookup block among the      *)
(* statements of a lookup block is an error of the parser and the validator, *)
(* so a tree without errors never has lowering start a lookup block while a  *)
(* named lookup is current: the assertion "lookup blocks cannot be nested"   *)
(* never fails, also when the enclosing block has script or language         *)
(* statements.                                                               *)
LookupBlocksNeverNested ==
    /\ panic # "start_lookup_block"
    /\ \A i \in 1..(Len(where) - 1) : where[i] # "lookup"

WitnessLookupBlocksNeverNested ==
    /\ panic = "" /\ InLookupBlock /\ InFeature
    /\ script # "" /\ lookups.current_name = ""
    /\ Len(lookups.done) >= 2
    /\ "l1" \in DOMAIN lookups.named

-----------------------------------------------------------------------------
(***************************************************************************)
(* The GDEF table: declared by a `table GDEF` block (resolve_gdef) or      *)
(* inferred by build from the mark classes and the mark attachment rules.  *)
(***************************************************************************)

MaxGdefSteps == 4   \* statements lowered before build

GdefGlyphs == {"a", "acute"}
ClassId == {"Base", "Ligature", "Mark", "Component"}

\* GDEF::add_glyph_class: a later insertion replaces an earlier one
add_glyph_class(m, glyphs, class) ==
    [g \in DOMAIN m \cup glyphs |-> IF g \in glyphs THEN class ELSE m[g]]

\* AllLookups::infer_glyph_classes: the callback is handed the base and the
\* ligature glyphs of the mark attachment rules, in the order of the lookups
RECURSIVE lookups_infer_glyph_classes(_, _)
lookups_infer_glyph_classes(rules, m) ==
    IF rules = <<>> THEN m
    ELSE lookups_infer_glyph_classes(Tail(rules),
                                     MapPut(m, Head(rules)[1], Head(rules)[2]))

\* the glyphs of every member of every mark class
mark_class_glyphs(mc) == UNION {mc[n] : n \in DOMAIN mc}

\* the mark classes are inserted first, the glyphs of the rules after them
glyph_classes_marks_first(rules, mc) ==
    lookups_infer_glyph_classes(rules,
        add_glyph_class(EmptyMap, mark_class_glyphs(mc), "Mark"))

\* infer_glyph_classes, the map it fills: the glyphs of the rules first, then
\* every glyph of a mark class as Mark
inferred_glyph_classes(rules, mc) ==
    add_glyph_class(lookups_infer_glyph_classes(rules, EmptyMap),
                    mark_class_glyphs(mc), "Mark")

\* infer_glyph_classes: the table is stored only when the map is not empty
infer_gdef(t, rules, mc) ==
    LET m == inferred_glyph_classes(rules, mc)
    IN  IF DOMAIN m # {} THEN [glyph_classes |-> m] ELSE t

GdefRunning == gdef_result = NoResult /\ gdef_steps < MaxGdefSteps

\* define_mark_class: a member is pushed on the class of that name
define_mark_class(name, glyphs) ==
    /\ GdefRunning
    /\ mark_classes' = MapPut(mark_classes, name,
                              MapGet(mark_classes, name, {}) \cup glyphs)
    /\ gdef_steps' = gdef_steps + 1
    /\ UNCHANGED <<gdef, rule_glyphs, gdef_blocks, gdef_errors, gdef_result, notGdef>>

\* a mark-to-base (Base) or mark-to-ligature (Ligature) rule on glyph g
add_mark_rule(g, class) ==
    /\ GdefRunning
    /\ rule_glyphs' = Append(rule_glyphs, <<g, class>>)
    /\ gdef_steps' = gdef_steps + 1
    /\ UNCHANGED <<gdef, mark_classes, gdef_blocks, gdef_errors, gdef_result, notGdef>>

\* resolve_gdef on a block with at most one GlyphClassDef statement, whose
\* base and mark classes are given (an empty set: the class is left out)
resolve_gdef_table(base_glyphs, mark_glyphs) ==
    /\ GdefRunning
    /\ gdef' = [glyph_classes |->
                  add_glyph_class(add_glyph_class(EmptyMap, base_glyphs, "Base"),
                                  mark_glyphs, "Mark")]
    /\ gdef_blocks' = gdef_blocks + 1
    /\ gdef_steps' = gdef_steps + 1
    /\ UNCHANGED <<mark_classes, rule_glyphs, gdef_errors, gdef_result, notGdef>>

\* CompilationCtx::error: an error diagnostic is pushed
CompilationCtx_error ==
    /\ GdefRunning
    /\ ~gdef_errors
    /\ gdef_errors' = TRUE
    /\ gdef_steps' = gdef_steps + 1
    /\ UNCHANGED <<gdef, mark_classes, rule_glyphs, gdef_blocks, gdef_result, notGdef>>

\* build
build_gdef ==
    /\ gdef_result = NoResult
    /\ IF gdef_errors
       THEN /\ gdef_result' = [ok |-> FALSE]
            /\ gdef' = gdef
       ELSE /\ gdef' = IF gdef = NoTable
                       THEN infer_gdef(gdef, rule_glyphs, mark_classes)
                       ELSE gdef
            /\ gdef_result' = [ok |-> TRUE, tables |-> [GDEF |-> gdef']]
    /\ UNCHANGED <<mark_classes, rule_glyphs, gdef_blocks, gdef_errors, gdef_steps,
                   notGdef>>

InitGdef == TreeIdle /\ EditIdle /\ LowerIdle /\ RestIdle

NextGdef ==
    \/ \E n \in MarkClassIds, gs \in (SUBSET GdefGlyphs) \ {{}} :
           define_mark_class(n, gs)
    \/ \E g \in GdefGlyphs, c \in {"Base", "Ligature"} : add_mark_rule(g, c)
    \/ \E b \in SUBSET GdefGlyphs, m \in SUBSET GdefGlyphs : resolve_gdef_table(b, m)
    \/ CompilationCtx_error
    \/ build_gdef

SpecGdef == InitGdef /\ [][NextGdef]_vars

(* C12: a build that returns a Compilation installs an inferred GDEF exactly
   when no `table GDEF` block was lowered and some glyph gets a class (it is
   the base or ligature of a mark rule, or a member of a mark class); in the
   inferred table every glyph of a mark class is Mark, whatever the rules
   said of it; a declared GDEF is left as it was and is the one returned. *)
InferredGdef ==
    [][(gdef_result = NoResult /\ gdef_result' # NoResult /\ gdef_result'.ok) =>
        LET mglyphs == mark_class_glyphs(mark_classes)
            seen == {rule_glyphs[i][1] : i \in 1..Len(rule_glyphs)}
        IN  /\ (gdef' # gdef) <=> (gdef_blocks = 0 /\ mglyphs \cup seen # {})
            /\ (gdef_blocks = 0 /\ gdef' # NoTable) =>
                   /\ DOMAIN gdef'.glyph_classes = mglyphs \cup seen
                   /\ \A g \in mglyphs : gdef'.glyph_classes[g] = "Mark"
            /\ gdef_blocks > 0 => gdef' = gdef
            /\ gdef_result'.tables.GDEF = gdef']_vars

WitnessInferredGdef ==
    /\ gdef_result # NoResult /\ gdef_result.ok
    /\ gdef_blocks = 0 /\ gdef # NoTable
    /\ \E g \in mark_class_glyphs(mark_classes) :
           /\ \E i \in 1..Len(rule_glyphs) : rule_glyphs[i] = <<g, "Base">>
           /\ gdef.glyph_classes[g] = "Mark"

-----------------------------------------------------------------------------
(* C13: for pairwise non-overlapping edits, each on the range of a node or
   token of the base tree at any depth, apply_edits completes without a
   failed assertion of op_for_node and every edit replaces its node. *)
EditsAllSubstituted ==
    edited # NoNode => (~edited.panic /\ edited.left = 0)

-----------------------------------------------------------------------------
(* C14: inside a feature other than aalt and size, `script t` finishes the
   current lookup, if any, and leaves its id in the feature's list of every
   language system that was current before the statement; afterwards the
   script is t and the current language systems are exactly {(t, dflt)}. *)
ScriptStatement ==
    [][\A t \in ScriptTags :
          (set_script(t) /\ cur_feature_name \notin {"", AALT_TAG, SIZE_TAG}) =>
              /\ ~has_current(lookups')
              /\ has_current(lookups) =>
                    \A sl \in cur_language_systems :
                       LET key == [feature |-> cur_feature_name, script |-> sl[1],
                                   language |-> sl[2]]
                           id == Len(lookups.done) + 1
                       IN  /\ key \in DOMAIN features'
                           /\ \E i \in 1..Len(features'[key]) : features'[key][i] = id
              /\ script' = t
              /\ cur_language_systems' = {<<t, LANG_DFLT_TAG>>}]_vars

-----------------------------------------------------------------------------
(* C15: inside a feature, a rule of kind K lowered while the current lookup
   has another kind finishes that lookup, appends its id to the feature's
   list of every current language system and opens an anonymous lookup of
   kind K with the lookup flags and the mark filter set then in force; a
   rule of the kind of the current lookup changes neither the registry nor
   the feature lists; after the rule the current lookup has kind K. *)
RuleOpensLookupOfItsKind ==
    [][\A k \in RuleKinds :
          (add_rule(k) /\ cur_feature_name # "") =>
              /\ has_current(lookups') /\ lookups'.current.kind = k
              /\ (has_current(lookups) /\ lookups.current.kind = k) =>
                    (lookups' = lookups /\ features' = features)
              /\ (has_current(lookups) /\ lookups.current.kind # k) =>
                    /\ lookups'.done = Append(lookups.done, lookups.current)
                    /\ lookups'.current = [kind |-> k, flags |-> lookup_flags,
                                           mark_set |-> cur_mark_filter_set]
                    /\ lookups'.current_name = ""
                    /\ \A sl \in cur_language_systems :
                          LET key == [feature |-> cur_feature_name, script |-> sl[1],
                                      language |-> sl[2]]
                          IN  /\ key \in DOMAIN features'
                              /\ features'[key] = Append(MapGet(features, key, <<>>),
                                                         Len(lookups.done) + 1)]_vars

WitnessRuleOpensLookupOfItsKind ==
    /\ panic = "" /\ InFeature /\ ~InLookupBlock
    /\ has_current(lookups) /\ lookups.current.flags = IGNORE_MARKS
    /\ Len(lookups.done) >= 1
    /\ lookups.done[Len(lookups.done)].kind # lookups.current.kind
    /\ Cardinality(cur_language_systems) = 2
    /\ \A sl \in cur_language_systems :
          LET key == [feature |-> cur_feature_name, script |-> sl[1],
                      language |-> sl[2]]
          IN  /\ key \in DOMAIN features
              /\ features[key] # <<>>
              /\ features[key][Len(features[key])] = Len(lookups.done)

-----------------------------------------------------------------------------
(* C16: when a named lookup block closes inside a feature, the id registered
   for its name is the last entry of the feature's list of every current
   language system; when a named lookup block opens or closes at top level
   no feature list changes and the lookup flags and the mark filter set are
   empty afterwards. *)
LookupBlockFrame ==
    [][/\ (end_lookup_block /\ cur_feature_name # "") =>
              \A n \in DOMAIN lookups'.named :
                 lookups'.named[n] # Empty =>
                    \A sl \in cur_language_systems :
                       LET key == [feature |-> cur_feature_name, script |-> sl[1],
                                   language |-> sl[2]]
                       IN  /\ key \in DOMAIN features'
                           /\ features'[key] # <<>>
                           /\ features'[key][Len(features'[key])] = lookups'.named[n]
       /\ (cur_feature_name = "" /\
           (end_lookup_block \/ \E n \in LookupNames : start_lookup_block(n))) =>
              /\ features' = features
              /\ lookup_flags' = 0
              /\ cur_mark_filter_set' = 0]_vars

-----------------------------------------------------------------------------
(***************************************************************************)
(* The validator: validate.rs.  validate_root walks the statements of the  *)
(* file; a tree it reports no error for is handed to the lowering.         *)
(***************************************************************************)

MaxVStmts == 3      \* statements walked by validate_root

AnchorForms == {"coord", "null", "named"}
MarkRuleKinds == {"Gpos4", "Gpos6"}
MarkClassNames == {"M0"}

\* ValidationCtx::error, ValidationCtx::warning; `at` is the statement the
\* range of the diagnostic lies in
ValidationCtx_error(errs, at, msg) ==
    Append(errs, [error |-> TRUE, message |-> msg, at |-> at])
ValidationCtx_warning(errs, at, msg) ==
    Append(errs, [error |-> FALSE, message |-> msg, at |-> at])

\* no order of the statements is an error
validate_language_system_any_order(s, l, dls, seen, errs, at) ==
    [errors |-> IF <<s, l>> \in dls
                THEN ValidationCtx_warning(errs, at, "Duplicate languagesystem definition")
                ELSE errs,
     default_lang_systems |-> dls \cup {<<s, l>>},
     seen_non_default_script |-> seen \/ s # "DFLT"]

\* validate_language_system as a function of the fields it reads
validate_language_system_op(s, l, dls, seen, errs, at) ==
    IF s = "DFLT" /\ l = "dflt" /\ dls # {}
    THEN [errors |-> ValidationCtx_error(errs, at,
                        "'DFLT dftl' must be first languagesystem statement"),
          default_lang_systems |-> dls, seen_non_default_script |-> seen]
    ELSE IF s = "DFLT" /\ seen
    THEN [errors |-> ValidationCtx_error(errs, at,
                        "languagesystem with 'DFLT' script tag must precede non-'DFLT' languagesystems"),
          default_lang_systems |-> dls, seen_non_default_script |-> seen]
    ELSE [errors |-> IF <<s, l>> \in dls
                     THEN ValidationCtx_warning(errs, at,
                              "Duplicate languagesystem definition")
                     ELSE errs,
          default_lang_systems |-> dls \cup {<<s, l>>},
          seen_non_default_script |-> seen \/ s # "DFLT"]

\* validate_anchor: only a named anchor is looked at; no anchorDef is part of
\* the modelled files, so every name is undefined
validate_anchor(errs, at, anchor) ==
    IF anchor = "named" THEN ValidationCtx_error(errs, at, "undefined anchor name")
    ELSE errs

\* validate_mark_class
validate_mark_class(errs, at, defs, name) ==
    IF name \notin defs THEN ValidationCtx_error(errs, at, "undefined mark class")
    ELSE errs

VRunning == v_lowered = NoResult /\ Len(v_stmts) < MaxVStmts

\* validate_root on a languagesystem statement
validate_root_language_system(s, l) ==
    /\ VRunning
    /\ LET r == validate_language_system_op(s, l, v_default_lang_systems,
                                            seen_non_default_script, v_errors,
                                            Len(v_stmts) + 1)
       IN  /\ v_errors' = r.errors
           /\ v_default_lang_systems' = r.default_lang_systems
           /\ seen_non_default_script' = r.seen_non_default_script
    /\ v_stmts' = Append(v_stmts, [kind |-> "languagesystem", script |-> s,
                                   language |-> l])
    /\ UNCHANGED <<mark_class_defs, mark_class_used, v_lowered, notValidate>>

\* validate_mark_class_def
validate_mark_class_def(name, anchor) ==
    /\ VRunning
    /\ LET at == Len(v_stmts) + 1
           errs == IF mark_class_used # NoToken
                   THEN ValidationCtx_error(v_errors, at,
                            "all markClass definitions must precede any use of a mark class in the file")
                   ELSE v_errors
       IN  v_errors' = validate_anchor(errs, at, anchor)
    /\ mark_class_defs' = mark_class_defs \cup {name}
    /\ v_stmts' = Append(v_stmts, [kind |-> "markClass", name |-> name,
                                   anchor |-> anchor])
    /\ UNCHANGED <<v_default_lang_systems, seen_non_default_script, mark_class_used,
                   v_lowered, notValidate>>

\* validate_gpos_statement on a mark-to-base (Type4) or mark-to-mark (Type6)
\* rule with one attachment: its anchor and its mark class name, "" if none
validate_gpos_statement(kind, anchor, mark_class) ==
    /\ VRunning
    /\ LET at == Len(v_stmts) + 1
           errs == validate_anchor(v_errors, at, anchor)
       IN  v_errors' =
             IF mark_class # ""
             THEN validate_mark_class(errs, at, mark_class_defs, mark_class)
             ELSE ValidationCtx_error(errs, at,
                      IF kind = "Gpos4"
                      THEN "mark-to-base attachments should not be null"
                      ELSE "mark-to-mark attachments should not be null")
    /\ v_stmts' = Append(v_stmts, [kind |-> kind, anchor |-> anchor,
                                   mark_class |-> mark_class])
    /\ UNCHANGED <<v_default_lang_systems, seen_non_default_script, mark_class_defs,
                   mark_class_used, v_lowered, notValidate>>

\* resolve_anchor(..).unwrap_or(Anchor::Null): a name that is not defined
\* resolves to nothing
resolve_anchor_or_null(anchor) == IF anchor = "coord" THEN "coord" ELSE "null"

\* define_mark_class: the member's anchor is pushed on the class
define_mark_class_member(mcs, name, anchor) ==
    MapPut(mcs, name, Append(MapGet(mcs, name, <<>>), resolve_anchor_or_null(anchor)))

\* add_mark_to_base, add_mark_to_mark: the expect / unwrap that fails, or ""
add_mark_rule_panic(mcs, anchor, mark_class) ==
    IF mark_class = "" THEN "checked in validation"
    ELSE IF mark_class \notin DOMAIN mcs THEN "mark_classes.get(..).unwrap()"
    ELSE IF \E i \in 1..Len(mcs[mark_class]) : mcs[mark_class][i] = "null"
    THEN "no null anchors in mark-to-base (check validation)"
    ELSE IF resolve_anchor_or_null(anchor) = "null"
    THEN "no null anchors in mark-to-base"
    ELSE ""

\* compile over the statements from the i-th on, mcs being mark_classes
RECURSIVE compile_stmts(_, _, _)
compile_stmts(stmts, i, mcs) ==
    IF i > Len(stmts) THEN ""
    ELSE LET st == stmts[i] IN
         IF st.kind = "markClass"
         THEN compile_stmts(stmts, i + 1, define_mark_class_member(mcs, st.name, st.anchor))
         ELSE IF st.kind \in MarkRuleKinds
         THEN LET p == add_mark_rule_panic(mcs, st.anchor, st.mark_class)
              IN  IF p # "" THEN p ELSE compile_stmts(stmts, i + 1, mcs)
         ELSE compile_stmts(stmts, i + 1, mcs)

\* the tree is lowered when the validator reported no error
compile_validated ==
    /\ v_lowered = NoResult
    /\ v_stmts # <<>>
    /\ \A i \in 1..Len(v_errors) : ~v_errors[i].error
    /\ v_lowered' = [panic |-> compile_stmts(v_stmts, 1, EmptyMap)]
    /\ UNCHANGED <<v_errors, v_default_lang_systems, seen_non_default_script,
                   mark_class_defs, mark_class_used, v_stmts, notValidate>>

InitValidate == TreeIdle /\ EditIdle /\ LowerIdle /\ RestIdle

NextValidate ==
    \/ \E s \in ScriptTags, l \in LangTags : validate_root_language_system(s, l)
    \/ \E n \in MarkClassNames, a \in AnchorForms : validate_mark_class_def(n, a)
    \/ \E k \in MarkRuleKinds, a \in AnchorForms, m \in MarkClassNames \cup {""} :
           validate_gpos_statement(k, a, m)
    \/ compile_validated

SpecValidate == InitValidate /\ [][NextValidate]_vars

\* the diagnostics on statement j
ErrorAt(j) == \E i \in 1..Len(v_errors) : v_errors[i].at = j /\ v_errors[i].error
WarningAt(j) == \E i \in 1..Len(v_errors) : v_errors[i].at = j /\ ~v_errors[i].error

(* C17: a markClass definition that comes after a rule referring to a mark
   class gets the error "all markClass definitions must precede any use of
   a mark class in the file". *)
MarkClassDefAfterUse ==
    \A i, j \in 1..Len(v_stmts) :
       (/\ i < j
        /\ v_stmts[i].kind \in MarkRuleKinds
        /\ v_stmts[i].mark_class # ""
        /\ v_stmts[j].kind = "markClass") =>
           \E e \in 1..Len(v_errors) :
              /\ v_errors[e].at = j /\ v_errors[e].error
              /\ v_errors[e].message =
                   "all markClass definitions must precede any use of a mark class in the file"


\* the languagesystem statements among the statements walked
IsLangSys(i) == v_stmts[i].kind = "languagesystem"
LangSysAt == {i \in 1..Len(v_stmts) : IsLangSys(i)}
IsDfltDflt(i) == v_stmts[i].script = "DFLT" /\ v_stmts[i].language = "dflt"
SamePair(i, j) ==
    v_stmts[i].script = v_stmts[j].script /\ v_stmts[i].language = v_stmts[j].language
Repeats(j) == \E i \in LangSysAt : i < j /\ SamePair(i, j)
DfltScriptsFirst ==
    \A i, j \in LangSysAt :
       (i < j /\ v_stmts[j].script = "DFLT") => v_stmts[i].script = "DFLT"

(* C18, as stated: the languagesystem statements get no error only if
   `DFLT dflt` occurs exactly once, as the first of them, and every statement
   with script DFLT precedes every statement with another script; a
   statement repeating an earlier pair gets a warning and no error. *)
LanguageSystemOrder ==
    /\ (LangSysAt # {} /\ \A j \in LangSysAt : ~ErrorAt(j)) =>
          /\ Cardinality({i \in LangSysAt : IsDfltDflt(i)}) = 1
          /\ \A i \in LangSysAt : IsDfltDflt(i) => \A j \in LangSysAt : i <= j
          /\ DfltScriptsFirst
    /\ \A j \in LangSysAt : Repeats(j) => (WarningAt(j) /\ ~ErrorAt(j))

(* C18, amended: the languagesystem statements get no error exactly when
   `DFLT dflt`, if it occurs at all, occurs only as the first of them and
   every statement with script DFLT precedes every statement with another
   script; a statement repeating an earlier pair gets either one of those
   errors or, when it is in order, the warning "Duplicate languagesystem
   definition". *)
LanguageSystemOrderIfPresent ==
    /\ (\A j \in LangSysAt : ~ErrorAt(j)) <=>
          /\ \A i \in LangSysAt : IsDfltDflt(i) => \A j \in LangSysAt : i <= j
          /\ DfltScriptsFirst
    /\ \A j \in LangSysAt : Repeats(j) => (WarningAt(j) <=> ~ErrorAt(j))
    /\ \A j \in LangSysAt : WarningAt(j) => Repeats(j)

WitnessLanguageSystemOrderIfPresent ==
    /\ Len(v_stmts) = 3 /\ LangSysAt = {1, 2, 3}
    /\ IsDfltDflt(1)
    /\ v_stmts[2].script = "latn"
    /\ Repeats(3) /\ WarningAt(3)
    /\ \A j \in LangSysAt : ~ErrorAt(j)

(* C19: a mark-to-base or mark-to-mark rule whose attachment has a NULL
   anchor or no mark class name gets an error of the validator, and the
   lowering of a tree the validator reported no error for never fails an
   expect on a null anchor. *)
NoNullAnchorReachesLowering ==
    /\ \A j \in 1..Len(v_stmts) :
          (/\ v_stmts[j].kind \in MarkRuleKinds
           /\ (v_stmts[j].anchor = "null" \/ v_stmts[j].mark_class = "")) => ErrorAt(j)
    /\ v_lowered # NoResult => v_lowered.panic = ""

-----------------------------------------------------------------------------
(***************************************************************************)
(* One AxisValue record of a STAT table: validate_stat walks its location  *)
(* statements, resolve_stat_axis_value lowers the record when the          *)
(* validator reported no error for it.                                     *)
(***************************************************************************)

MaxLocations == 3   \* location statements in the record

LocationFormats == {"a", "b", "c"}
AxisTags == {"wght", "wdth"}
AxisValues == {"100", "400"}

\* validate_stat: the match on (prev_format, format); "" when nothing is
\* reported
location_error(prev_format, format) ==
    IF prev_format = "a" /\ format = "a" THEN ""
    ELSE IF prev_format # "" /\ format = "a"
    THEN "multiple location statements, but previous statement was not format 'a'"
    ELSE IF prev_format # "" /\ format = "b"
    THEN "location statement format 'b' must be only statement"
    ELSE IF prev_format # "" /\ format = "c"
    THEN "location statement format 'c' must be only statement"
    ELSE ""

\* validate_stat on the next location statement of the record
validate_location(format, tag, value) ==
    /\ stat_pc = "validating"
    /\ Len(locations) < MaxLocations
    /\ seen_location_format' = format
    /\ LET msg == location_error(seen_location_format, format)
       IN  stat_errors' = IF msg # "" THEN Append(stat_errors, msg) ELSE stat_errors
    /\ locations' = Append(locations, [format |-> format, tag |-> tag, value |-> value])
    /\ UNCHANGED <<stat_pc, axis_value, notStat>>

\* validate_stat at the end of the statements of the record
validate_axis_value_end ==
    /\ stat_pc = "validating"
    /\ stat_pc' = "validated"
    /\ UNCHANGED <<locations, seen_location_format, stat_errors, axis_value, notStat>>

NoLocation == [none |-> TRUE]

\* resolve_stat_axis_value: the arm of one location statement
resolve_location(location, loc) ==
    IF loc.format = "a"
    THEN LET l1 == IF location # NoLocation /\ location.format = "One"
                   THEN [format |-> "Four", values |-> <<<<location.tag, location.value>>>>]
                   ELSE location
         IN  IF l1 # NoLocation /\ l1.format = "Four"
             THEN [l1 EXCEPT !.values = Append(@, <<loc.tag, loc.value>>)]
             ELSE [format |-> "One", tag |-> loc.tag, value |-> loc.value]
    ELSE IF loc.format = "b"
    THEN [format |-> "Two", tag |-> loc.tag, nominal |-> loc.value]
    ELSE [format |-> "Three", tag |-> loc.tag, value |-> loc.value]

\* resolve_stat_axis_value: the loop over the statements
RECURSIVE resolve_locations(_, _, _)
resolve_locations(locs, i, location) ==
    IF i > Len(locs) THEN location
    ELSE resolve_locations(locs, i + 1, resolve_location(location, locs[i]))

\* resolve_stat_axis_value on a record the validator reported no error for
resolve_stat_axis_value ==
    /\ stat_pc = "validated"
    /\ stat_errors = <<>>
    /\ LET location == resolve_locations(locations, 1, NoLocation)
       IN  axis_value' = IF location = NoLocation
                         THEN [panic |-> TRUE]
                         ELSE [panic |-> FALSE, location |-> location]
    /\ stat_pc' = "lowered"
    /\ UNCHANGED <<locations, seen_location_format, stat_errors, notStat>>

InitStat == TreeIdle /\ EditIdle /\ LowerIdle /\ RestIdle

NextStat ==
    \/ \E f \in LocationFormats, t \in AxisTags, v \in AxisValues :
           validate_location(f, t, v)
    \/ validate_axis_value_end
    \/ resolve_stat_axis_value

SpecStat == InitStat /\ [][NextStat]_vars

(* C20: the validator reports no error for an axis-value record exactly when
   its location statements are one statement of format b or c, or one or
   more statements all of format a; location.unwrap() does not fail on a
   record without errors; two or more format-a statements lower to one
   multi-axis location holding their (tag, value) pairs in source order. *)
AxisValueLocations ==
    /\ stat_pc # "validating" =>
          (stat_errors = <<>> <=>
              \/ Len(locations) = 1 /\ locations[1].format \in {"b", "c"}
              \/ /\ Len(locations) >= 1
                 /\ \A i \in 1..Len(locations) : locations[i].format = "a")
    /\ axis_value # NoResult =>
          /\ ~axis_value.panic
          /\ Len(locations) >= 2 =>
                axis_value.location =
                   [format |-> "Four",
                    values |-> [i \in 1..Len(locations) |->
                                  <<locations[i].tag, locations[i].value>>]]

-----------------------------------------------------------------------------
(***************************************************************************)
(* Single substitution rules of one feature block: add_single_sub checks   *)
(* the shape of its inputs before it asks for a lookup of kind GsubType1.  *)
(***************************************************************************)

MaxSubCalls == 3    \* rules lowered in the feature
MaxClassLen == 2    \* glyphs in a class of a rule

SubGlyphs == {1, 2}
SingleSubFeature == "liga"
SingleSubLangSystems == {<<SCRIPT_DFLT_TAG, LANG_DFLT_TAG>>}

GlyphOrClass_Null == [variant |-> "Null"]
GlyphOrClass_Glyph(g) == [variant |-> "Glyph", glyph |-> g]
GlyphOrClass_Class(c) == [variant |-> "Class", class |-> c]

\* resolve_glyph_or_class of the target: a glyph class used as a target
\* names each glyph once
SubTargets ==
    {GlyphOrClass_Null}
      \cup {GlyphOrClass_Glyph(g) : g \in SubGlyphs}
      \cup {GlyphOrClass_Class(c) : c \in {d \in SeqsUpTo(SubGlyphs, MaxClassLen) :
                                     \A i, j \in 1..Len(d) : d[i] = d[j] => i = j}}

\* resolve_glyph_or_class of the replacement
SubReplacements ==
    {GlyphOrClass_Glyph(g) : g \in SubGlyphs}
      \cup {GlyphOrClass_Class(c) : c \in SeqsUpTo(SubGlyphs, MaxClassLen)}

\* every shape is let through
validate_single_sub_inputs_unchecked(target, replace) == [some |-> TRUE, msg |-> ""]

\* validate_single_sub_inputs: [some |-> FALSE] with the message of the error
\* it reports, or [some |-> TRUE]
validate_single_sub_inputs(target, replace) ==
    IF target.variant = "Null"
    THEN [some |-> FALSE, msg |-> "NULL is not a valid substitution target"]
    ELSE IF target.variant = "Glyph" /\ replace.variant = "Class"
    THEN [some |-> FALSE, msg |-> "cannot sub glyph by glyph class"]
    ELSE IF /\ target.variant = "Class" /\ replace.variant = "Class"
            /\ Len(target.class) # Len(replace.class)
    THEN [some |-> FALSE, msg |-> "class has different length than target"]
    ELSE [some |-> TRUE, msg |-> ""]

\* GlyphOrClass::iter
GlyphOrClass_iter(x) ==
    IF x.variant = "Glyph" THEN <<x.glyph>>
    ELSE IF x.variant = "Class" THEN x.class
    ELSE <<>>

\* target.iter().zip(replacement.into_iter_for_target()): a replacement
\* glyph is repeated for every target, a class is walked in step
zip_for_target(target, replace) ==
    LET ts == GlyphOrClass_iter(target)
        n == IF replace.variant = "Class" /\ Len(replace.class) < Len(ts)
             THEN Len(replace.class) ELSE Len(ts)
    IN  [i \in 1..n |-> <<ts[i], IF replace.variant = "Class" THEN replace.class[i]
                                 ELSE replace.glyph>>]

\* the loop of add_gsub_type_1 calls: SingleSubBuilder::insert on each pair
RECURSIVE add_gsub_type_1(_, _, _)
add_gsub_type_1(items, pairs, i) ==
    IF i > Len(pairs) THEN items
    ELSE add_gsub_type_1(MapPut(items, pairs[i][1], pairs[i][2]), pairs, i + 1)

\* ensure_current_lookup_type on the registry and the feature map; `items`
\* are the rules of the single substitution lookup in the current slot
ensure_current_lookup_type(L, feats, items, kind) ==
    IF needs_new_lookup(L, kind)
    THEN LET r == start_lookup(L, kind, 0, 0)
         IN  [L |-> r.L,
              features |-> IF r.some
                           THEN add_lookup_to_feature(feats, SingleSubLangSystems,
                                                      r.id, SingleSubFeature)
                           ELSE feats,
              items |-> EmptyMap]
    ELSE [L |-> L, features |-> feats, items |-> items]

add_single_sub(target, replace) ==
    /\ ss_calls < MaxSubCalls
    /\ ss_calls' = ss_calls + 1
    /\ LET v == validate_single_sub_inputs(target, replace) IN
       IF ~v.some
       THEN /\ ss_errors' = Append(ss_errors, v.msg)
            /\ UNCHANGED <<ss_lookups, ss_items, ss_features>>
       ELSE LET e == ensure_current_lookup_type(ss_lookups, ss_features, ss_items,
                                                "GsubType1")
            IN  /\ ss_lookups' = e.L
                /\ ss_features' = e.features
                /\ ss_items' = add_gsub_type_1(e.items, zip_for_target(target, replace), 1)
                /\ UNCHANGED ss_errors
    /\ UNCHANGED notSingleSub

\* add_ligature_sub: a rule of another kind between single substitutions
add_ligature_sub ==
    /\ ss_calls < MaxSubCalls
    /\ ss_calls' = ss_calls + 1
    /\ LET e == ensure_current_lookup_type(ss_lookups, ss_features, ss_items,
                                           "GsubType4")
       IN  /\ ss_lookups' = e.L
           /\ ss_features' = e.features
           /\ ss_items' = e.items
    /\ UNCHANGED <<ss_errors, notSingleSub>>

InitSingleSub == TreeIdle /\ EditIdle /\ LowerIdle /\ RestIdle

NextSingleSub ==
    \/ \E t \in SubTargets, r \in SubReplacements : add_single_sub(t, r)
    \/ add_ligature_sub

SpecSingleSub == InitSingleSub /\ [][NextSingleSub]_vars

\* the shapes the statement names: a NULL target, a glyph replaced by a
\* class, classes of different cardinality
BadSingleSubShape(t, r) ==
    \/ t.variant = "Null"
    \/ t.variant = "Glyph" /\ r.variant = "Class"
    \/ t.variant = "Class" /\ r.variant = "Class" /\ Len(t.class) # Len(r.class)

(* C21: single substitution shape check.  Lowering a single substitution    *)
(* of a bad shape (NULL target, glyph by class, classes of different        *)
(* cardinality) reports one error and leaves the lookup registry, the rules *)
(* of the current lookup and the feature lists as they were; lowering one   *)
(* with classes of equal cardinality reports nothing and leaves the i-th    *)
(* target glyph mapped to the i-th replacement glyph in a lookup of kind    *)
(* GsubType1.                                                               *)
SingleSubShapeCheck ==
    [][\A t \in SubTargets, r \in SubReplacements :
         add_single_sub(t, r) =>
            IF BadSingleSubShape(t, r)
            THEN /\ Len(ss_errors') = Len(ss_errors) + 1
                 /\ ss_lookups' = ss_lookups
                 /\ ss_items' = ss_items
                 /\ ss_features' = ss_features
            ELSE /\ ss_errors' = ss_errors
                 /\ ss_lookups'.current # NoLookup
                 /\ ss_lookups'.current.kind = "GsubType1"
                 /\ (t.variant = "Class" /\ r.variant = "Class" =>
                        \A i \in 1..Len(t.class) :
                           /\ t.class[i] \in DOMAIN ss_items'
                           /\ ss_items'[t.class[i]] = r.class[i])]_vars

\* a class of two glyphs was replaced by a class of two, in a lookup opened
\* after a ligature lookup was closed into the feature, and one rule of a
\* bad shape was reported
WitnessSingleSubShapeCheck ==
    /\ Len(ss_errors) = 1
    /\ ss_lookups.current # NoLookup
    /\ ss_lookups.current.kind = "GsubType1"
    /\ DOMAIN ss_items = {1, 2} /\ ss_items[1] = 2 /\ ss_items[2] = 1

-----------------------------------------------------------------------------
(***************************************************************************)
(* SinglePosBuilder: single adjustment records collected per value format  *)
(* and built into SinglePos subtables.                                     *)
(***************************************************************************)

MaxPosCalls == 3    \* insert calls before build

PosGlyphs == {1, 2}

\* ValueRecord: each field is absent (<<>>) or holds a value
ValueRecords == [x_advance : {<<>>, <<10>>, <<20>>}, x_placement : {<<>>, <<10>>}]

\* ValueRecord::format: the fields that are present
ValueRecord_format(record) ==
    [x_advance |-> record.x_advance # <<>>, x_placement |-> record.x_placement # <<>>]

\* get_subtable: the subtables after the call; the subtable handed out is
\* the last one
get_subtable(subtables, format) ==
    IF subtables = <<>> \/ subtables[Len(subtables)].format # format
    THEN Append(subtables, [format |-> format, items |-> EmptyMap])
    ELSE subtables

SinglePosBuilder_insert(glyph, record) ==
    /\ sp_built = NoResult
    /\ sp_calls < MaxPosCalls
    /\ sp_calls' = sp_calls + 1
    /\ LET subs == get_subtable(sp_subtables, ValueRecord_format(record))
       IN  sp_subtables' = [subs EXCEPT ![Len(subs)].items = MapPut(@, glyph, record)]
    /\ UNCHANGED <<sp_built, notSinglePos>>

\* the keys of a BTreeMap in ascending order
RECURSIVE BTreeKeys(_)
BTreeKeys(S) ==
    IF S = {} THEN <<>>
    ELSE LET m == CHOOSE x \in S : \A y \in S : x <= y
         IN  <<m>> \o BTreeKeys(S \ {m})

\* SinglePosSubtable::build
SinglePosSubtable_build(sub) ==
    LET keys == BTreeKeys(DOMAIN sub.items)
        first_value == sub.items[keys[1]]
        format_1 == \A g \in DOMAIN sub.items : sub.items[g] = first_value
    IN  IF format_1
        THEN [format |-> 1, coverage |-> keys, value |-> first_value]
        ELSE [format |-> 2, coverage |-> keys,
              values |-> [i \in 1..Len(keys) |-> sub.items[keys[i]]]]

\* SinglePosBuilder::build
SinglePosBuilder_build ==
    /\ sp_built = NoResult
    /\ sp_built' = [subtables |-> [i \in 1..Len(sp_subtables) |->
                                     SinglePosSubtable_build(sp_subtables[i])]]
    /\ UNCHANGED <<sp_subtables, sp_calls, notSinglePos>>

InitSinglePos == TreeIdle /\ EditIdle /\ LowerIdle /\ RestIdle

NextSinglePos ==
    \/ \E g \in PosGlyphs, r \in ValueRecords : SinglePosBuilder_insert(g, r)
    \/ SinglePosBuilder_build

SpecSinglePos == InitSinglePos /\ [][NextSinglePos]_vars

\* the value formats of the records inserted: every subtable opened by
\* get_subtable received a record
InsertedFormats == {sp_subtables[i].format : i \in 1..Len(sp_subtables)}

(* C22: single-pos aggregation per value format.  After any sequence of     *)
(* insert calls build yields exactly one subtable per distinct value format *)
(* among the inserted records, whatever the order the formats came in, and  *)
(* each subtable is format 1 exactly when all its records are equal,        *)
(* otherwise format 2 with the values in coverage order.                    *)
SinglePosPerFormat ==
    sp_built # NoResult =>
        /\ Len(sp_built.subtables) = Cardinality(InsertedFormats)
        /\ \A i \in 1..Len(sp_built.subtables) :
              LET items == sp_subtables[i].items
                  equal == \A g, h \in DOMAIN items : items[g] = items[h]
                  built == sp_built.subtables[i]
              IN  /\ built.format = (IF equal THEN 1 ELSE 2)
                  /\ ~equal => \A k \in 1..Len(built.coverage) :
                                  built.values[k] = items[built.coverage[k]]

-----------------------------------------------------------------------------
(***************************************************************************)
(* MarkToBaseBuilder: the marks and bases of one mark-to-base lookup, with *)
(* the mark classes numbered by define_mark_class over the whole file.     *)
(***************************************************************************)

MaxBaseCalls == 3   \* insert_mark and insert_base calls before build

\* MarkClass.id: self.mark_classes.len() at the definition of the class
MarkClassNums == {0, 1, 2}
MarkGlyphIds == {1, 2}
BaseGlyphIds == {3}
BaseAnchors == {"a1", "a2"}
NoAnchor == ""

MarkToBaseBuilder_insert_mark(glyph, class, anchor) ==
    /\ mb_built = NoResult
    /\ mb_calls < MaxBaseCalls
    /\ mb_calls' = mb_calls + 1
    /\ mb_mark_classes' = mb_mark_classes \cup {class}
    /\ mb_marks' = MarkList_insert_op(mb_marks, glyph, class, anchor).marks
    /\ UNCHANGED <<mb_bases, mb_built, notMarkBase>>

\* insert_base; add_mark_to_base calls it after insert_mark on the members
\* of the class
MarkToBaseBuilder_insert_base(glyph, class, anchor) ==
    /\ mb_built = NoResult
    /\ mb_calls < MaxBaseCalls
    /\ class \in mb_mark_classes
    /\ mb_calls' = mb_calls + 1
    /\ mb_bases' = MapPut(mb_bases, glyph,
                          Append(MapGet(mb_bases, glyph, <<>>), <<class, anchor>>))
    /\ UNCHANGED <<mb_marks, mb_mark_classes, mb_built, notMarkBase>>

\* mark_classes.iter().position(|c| c == &class), counted from 0
class_idx(classes, class) == Cardinality({c \in classes : c < class})

\* the loop over the anchors of one base: anchor_offsets after pair i
RECURSIVE anchor_offsets(_, _, _, _)
anchor_offsets(offsets, anchors, i, classes) ==
    IF i > Len(anchors) THEN offsets
    ELSE anchor_offsets(
            [offsets EXCEPT ![class_idx(classes, anchors[i][1]) + 1] = anchors[i][2]],
            anchors, i + 1, classes)

\* MarkList::build: the coverage and the mark array, in glyph order
MarkList_build(m) ==
    LET keys == BTreeKeys(DOMAIN m)
    IN  [coverage |-> keys, array |-> [i \in 1..Len(keys) |-> m[keys[i]]]]

\* MarkToBaseBuilder::build
MarkToBaseBuilder_build ==
    /\ mb_built = NoResult
    /\ LET ml == MarkList_build(mb_marks)
           keys == BTreeKeys(DOMAIN mb_bases)
           resized == [k \in 1..Cardinality(mb_mark_classes) |-> NoAnchor]
       IN  mb_built' =
             [mark_coverage |-> ml.coverage,
              base_coverage |-> keys,
              mark_array |-> ml.array,
              base_array |-> [i \in 1..Len(keys) |->
                                anchor_offsets(resized, mb_bases[keys[i]], 1,
                                               mb_mark_classes)]]
    /\ UNCHANGED <<mb_marks, mb_mark_classes, mb_bases, mb_calls, notMarkBase>>

InitMarkBase == TreeIdle /\ EditIdle /\ LowerIdle /\ RestIdle

NextMarkBase ==
    \/ \E g \in MarkGlyphIds, c \in MarkClassNums :
           MarkToBaseBuilder_insert_mark(g, c, "m")
    \/ \E g \in BaseGlyphIds, c \in MarkClassNums, a \in BaseAnchors :
           MarkToBaseBuilder_insert_base(g, c, a)
    \/ MarkToBaseBuilder_build

SpecMarkBase == InitMarkBase /\ [][NextMarkBase]_vars

\* the anchor a base declares for a class: the one of its last pair for it
DeclaredAnchor(anchors, class) ==
    LET is == {i \in 1..Len(anchors) : anchors[i][1] = class}
    IN  IF is = {} THEN NoAnchor
        ELSE anchors[CHOOSE i \in is : \A j \in is : j <= i][2]

(* C23: in every subtable built by MarkToBaseBuilder each base record has   *)
(* exactly one anchor slot per distinct mark class inserted, and the class  *)
(* value stored in every mark record is a valid index (below the number of  *)
(* slots) of the slot holding the anchor declared for that class, whatever  *)
(* the ids of the mark classes are, 0..n-1 or not.                          *)
MarkClassSlots ==
    mb_built # NoResult =>
        \A b \in 1..Len(mb_built.base_array) :
            LET slots == mb_built.base_array[b]
                anchors == mb_bases[mb_built.base_coverage[b]]
            IN  /\ Len(slots) = Cardinality(mb_mark_classes)
                /\ \A m \in 1..Len(mb_built.mark_array) :
                      LET class == mb_built.mark_array[m].mark_class
                      IN  /\ class < Len(slots)
                          /\ slots[class + 1] = DeclaredAnchor(anchors, class)

-----------------------------------------------------------------------------
(***************************************************************************)
(* sequence_enumerator: the glyph sequences a sequence of glyphs and glyph *)
(* classes stands for.                                                     *)
(***************************************************************************)

MaxSeqLen == 3      \* items in a sequence

\* the items of a sequence: glyphs, and classes of zero to three glyphs
EnumItems ==
    {GlyphOrClass_Glyph(1), GlyphOrClass_Glyph(2), GlyphOrClass_Class(<<>>),
     GlyphOrClass_Class(<<2, 3>>), GlyphOrClass_Class(<<4, 2, 3>>)}

\* sequence_enumerator_impl from glyph i of `left` on; the result is acc
RECURSIVE sequence_enumerator_impl(_, _, _, _, _)
sequence_enumerator_impl(prefix, left, right, acc, i) ==
    IF i > Len(GlyphOrClass_iter(left)) THEN acc
    ELSE LET prefix2 == Append(prefix, GlyphOrClass_iter(left)[i])
             acc2 == IF right # <<>>
                     THEN sequence_enumerator_impl(prefix2, Head(right), Tail(right), acc, 1)
                     ELSE Append(acc, prefix2)
         IN  sequence_enumerator_impl(prefix, left, right, acc2, i + 1)

\* the first item is left out
sequence_enumerator_tail(sequence) ==
    IF Len(sequence) < 2 THEN [panic |-> TRUE]
    ELSE [panic |-> FALSE,
          out |-> sequence_enumerator_impl(<<>>, sequence[2], Tail(Tail(sequence)), <<>>, 1)]

\* sequence_enumerator; the assert! fails on fewer than two items
sequence_enumerator_op(sequence) ==
    IF Len(sequence) < 2 THEN [panic |-> TRUE]
    ELSE [panic |-> FALSE,
          out |-> sequence_enumerator_impl(<<>>, Head(sequence), Tail(sequence), <<>>, 1)]

sequence_enumerator ==
    /\ se_result = NoResult
    /\ se_result' = sequence_enumerator_op(se_sequence)
    /\ UNCHANGED <<se_sequence, notEnum>>

InitEnum ==
    /\ TreeIdle /\ EditIdle /\ LowerIdle /\ MarkIdle /\ InternIdle /\
       TableIdle /\ GdefIdle /\ ValidateIdle /\ StatIdle /\ SingleSubIdle /\
       SinglePosIdle /\ MarkBaseIdle /\ FeatIdle /\ NameIdle
    /\ se_sequence \in SeqsUpTo(EnumItems, MaxSeqLen) \ {<<>>}
    /\ se_result = NoResult

NextEnum == sequence_enumerator

SpecEnum == InitEnum /\ [][NextEnum]_vars

\* the number of glyphs at position p, and the number of choices for the
\* positions after p
ItemSize(p) == Len(GlyphOrClass_iter(se_sequence[p]))
RECURSIVE ChoicesAfter(_)
ChoicesAfter(p) ==
    IF p >= Len(se_sequence) THEN 1 ELSE ItemSize(p + 1) * ChoicesAfter(p + 1)

(* C24: sequence_enumerator on a sequence of at least two items returns the *)
(* Cartesian product of the items' glyphs: as many results as the product   *)
(* of the class sizes, each of the input length, the k-th result being the  *)
(* k-th choice of one glyph per position in lexicographic order, the first  *)
(* position varying slowest.                                                *)
SequenceEnumeratorProduct ==
    (se_result # NoResult /\ Len(se_sequence) >= 2) =>
        /\ ~se_result.panic
        /\ Len(se_result.out) = ItemSize(1) * ChoicesAfter(1)
        /\ \A k \in 1..Len(se_result.out) :
              /\ Len(se_result.out[k]) = Len(se_sequence)
              /\ \A p \in 1..Len(se_sequence) :
                    se_result.out[k][p] =
                       GlyphOrClass_iter(se_sequence[p])
                          [(((k - 1) \div ChoicesAfter(p)) % ItemSize(p)) + 1]

\* a glyph followed by a class of two and a class of three: six sequences
WitnessSequenceEnumeratorProduct ==
    /\ se_result # NoResult
    /\ Len(se_sequence) = 3
    /\ se_sequence[1].variant = "Glyph"
    /\ ~se_result.panic
    /\ Len(se_result.out) = 6
    /\ se_result.out[1] # se_result.out[2]

-----------------------------------------------------------------------------
(***************************************************************************)
(* The parser inside a feature or lookup block: grammar/feature.rs.  The   *)
(* statement loop of the body and the entry loops of cvParameters and      *)
(* featureNames, one loop iteration per step.                              *)
(***************************************************************************)

MaxFeatTokens == 3  \* tokens after the opening brace of the block
MaxFeatIter == 4    \* loop iterations followed

FeatKinds ==
    {"CvParametersKw", "FeatureNamesKw", "CharacterKw", "FeatUiLabelNameIdKw",
     "NameKw", "LBrace", "RBrace", "Semi", "Number", "SubtableKw", "FeatureKw",
     "Ident"}

\* TokenSet::FEATURE_STATEMENT: the keywords a statement of a feature block
\* starts with
FEATURE_STATEMENT ==
    {"PosKw", "SubKw", "RsubKw", "IgnoreKw", "EnumKw", "NamedGlyphClass",
     "MarkClassKw", "ParametersKw", "SubtableKw", "LookupKw", "LookupflagKw",
     "ScriptKw", "LanguageKw", "FeatureKw", "SizemenunameKw", "CvParametersKw",
     "FeatureNamesKw"}
TOP_AND_FEATURE == TOP_LEVEL \cup FEATURE_STATEMENT
IDENT_LIKE == {"Ident"}

UNICODE_VALUE == {"Number", "Hex"}
PARAM_KEYWORDS ==
    {"FeatUiLabelNameIdKw", "FeatUiTooltipTextNameIdKw", "SampleTextNameIdKw",
     "ParamUiLabelNameIdKw", "CharacterKw"}

\* Parser::expect, expect_semi: the token is eaten if it is the one expected
expect(toks, pos, set) == eat(toks, pos, set)
expect_semi(toks, pos) == expect(toks, pos, {"Semi"})

\* Parser::err_and_bump
err_and_bump(toks, pos) == eat_raw(toks, pos)

name_entry(toks, pos, recovery) ==
    LET p1 == expect(toks, pos, {"NameKw"})
        p2 == IF p1 # pos THEN expect_name_record(toks, p1, recovery)
              ELSE eat_until(toks, pos, recovery)
    IN  expect_semi(toks, p2)

\* the loop of name entries in a parameter block of cvParameters
RECURSIVE param_name_entries(_, _, _)
param_name_entries(toks, pos, recovery) ==
    IF ~at_eof(toks, pos) /\ ~matches(toks, pos, recovery)
    THEN param_name_entries(toks, name_entry(toks, pos, recovery \cup {"NameKw"}),
                            recovery)
    ELSE pos

\* cv_parameters: fn entry
cv_parameters_entry_op(toks, pos, recovery) ==
    IF matches(toks, pos, {"CharacterKw"})
    THEN LET p1 == eat(toks, pos, {"CharacterKw"})
             p2 == expect_recover(toks, p1, UNICODE_VALUE, recovery)
         IN  expect_semi(toks, p2)
    ELSE IF matches(toks, pos, PARAM_KEYWORDS)
    THEN LET p1 == eat(toks, pos, PARAM_KEYWORDS)
             p2 == expect_recover(toks, p1, {"LBrace"}, recovery \cup {"NameKw"})
             p3 == param_name_entries(toks, p2, recovery)
             p4 == expect_recover(toks, p3, {"RBrace"}, recovery)
         IN  expect_semi(toks, p4)
    ELSE pos

entry_recovery(recovery) == recovery \cup PARAM_KEYWORDS \cup {"RBrace", "Semi"}
name_recovery(recovery) == recovery \cup {"NameKw", "RBrace", "Semi"}

\* statement, for the statements that hold no loop of their own; the result
\* is the position it leaves the parser at
statement_op(toks, pos, recovery, in_lookup) ==
    LET kind == nth_kind(toks, pos) IN
    IF kind = "SubtableKw"
    THEN expect_recover(toks, eat_raw(toks, pos), {"Semi"}, recovery)
    ELSE IF kind = "FeatureKw"
    THEN IF matches(toks, pos + 1, IDENT_LIKE) /\ matches(toks, pos + 2, {"Semi"})
         THEN pos + 3 ELSE pos
    ELSE IF kind = "CvParametersKw" /\ in_lookup
    THEN eat_until(toks, err_and_bump(toks, pos), recovery)
    ELSE eat_until(toks, pos, TOP_AND_FEATURE \cup {"RBrace"})

\* the condition of the statement loop of feature_body and lookup_body
more_statements(toks, pos) == ~at_eof(toks, pos) /\ ~matches(toks, pos, {"RBrace"})

\* the condition of the entry loops of cv_parameters and feature_names
more_block_entries(toks, pos, recovery) ==
    ~at_eof(toks, pos) /\ ~matches(toks, pos, recovery \cup {"RBrace"})

HasOwnLoop(kind, in_lookup) ==
    \/ kind = "CvParametersKw" /\ ~in_lookup
    \/ kind = "FeatureNamesKw"

\* one iteration of the statement loop on a statement without a loop: the
\* loop is left when statement returns false
statement ==
    /\ fp_pc = "body"
    /\ fp_iter < MaxFeatIter
    /\ more_statements(fp_tokens, fp_pos)
    /\ ~HasOwnLoop(nth_kind(fp_tokens, fp_pos), fp_in_lookup)
    /\ fp_pos' = statement_op(fp_tokens, fp_pos, FEATURE_STATEMENT, fp_in_lookup)
    /\ fp_pc' = IF fp_pos' # fp_pos THEN "body" ELSE "closing"
    /\ fp_iter' = fp_iter + 1
    /\ UNCHANGED <<fp_tokens, fp_in_lookup, notFeat>>

\* statement at cvParameters: cv_parameters up to its entry loop
cv_parameters_start ==
    /\ fp_pc = "body"
    /\ fp_iter < MaxFeatIter
    /\ more_statements(fp_tokens, fp_pos)
    /\ nth_kind(fp_tokens, fp_pos) = "CvParametersKw" /\ ~fp_in_lookup
    /\ fp_pos' = expect_recover(fp_tokens, eat(fp_tokens, fp_pos, {"CvParametersKw"}),
                                {"LBrace"}, entry_recovery(FEATURE_STATEMENT))
    /\ fp_pc' = "cv"
    /\ fp_iter' = fp_iter + 1
    /\ UNCHANGED <<fp_tokens, fp_in_lookup, notFeat>>

\* one iteration of the entry loop of cv_parameters
cv_parameters_entry ==
    /\ fp_pc = "cv"
    /\ fp_iter < MaxFeatIter
    /\ more_block_entries(fp_tokens, fp_pos, FEATURE_STATEMENT)
    /\ fp_pos' = cv_parameters_entry_op(fp_tokens, fp_pos,
                                        entry_recovery(FEATURE_STATEMENT))
    /\ fp_iter' = fp_iter + 1
    /\ UNCHANGED <<fp_tokens, fp_in_lookup, fp_pc, notFeat>>

\* cv_parameters after its entry loop; statement returns true
cv_parameters_end ==
    /\ fp_pc = "cv"
    /\ ~more_block_entries(fp_tokens, fp_pos, FEATURE_STATEMENT)
    /\ fp_pos' = expect_semi(fp_tokens,
                    expect_recover(fp_tokens, fp_pos, {"RBrace"},
                                   entry_recovery(FEATURE_STATEMENT)))
    /\ fp_pc' = "body"
    /\ UNCHANGED <<fp_tokens, fp_in_lookup, fp_iter, notFeat>>

\* statement at featureNames: feature_names up to its entry loop
feature_names_start ==
    /\ fp_pc = "body"
    /\ fp_iter < MaxFeatIter
    /\ more_statements(fp_tokens, fp_pos)
    /\ nth_kind(fp_tokens, fp_pos) = "FeatureNamesKw"
    /\ fp_pos' = expect_recover(fp_tokens, eat(fp_tokens, fp_pos, {"FeatureNamesKw"}),
                                {"LBrace"}, name_recovery(FEATURE_STATEMENT))
    /\ fp_pc' = "names"
    /\ fp_iter' = fp_iter + 1
    /\ UNCHANGED <<fp_tokens, fp_in_lookup, notFeat>>

\* one iteration of the entry loop of feature_names
feature_names_entry ==
    /\ fp_pc = "names"
    /\ fp_iter < MaxFeatIter
    /\ more_block_entries(fp_tokens, fp_pos, FEATURE_STATEMENT)
    /\ fp_pos' = name_entry(fp_tokens, fp_pos, name_recovery(FEATURE_STATEMENT))
    /\ fp_iter' = fp_iter + 1
    /\ UNCHANGED <<fp_tokens, fp_in_lookup, fp_pc, notFeat>>

\* feature_names after its entry loop; statement returns true
feature_names_end ==
    /\ fp_pc = "names"
    /\ ~more_block_entries(fp_tokens, fp_pos, FEATURE_STATEMENT)
    /\ fp_pos' = expect_semi(fp_tokens,
                    expect_recover(fp_tokens, fp_pos, {"RBrace"},
                                   name_recovery(FEATURE_STATEMENT)))
    /\ fp_pc' = "body"
    /\ UNCHANGED <<fp_tokens, fp_in_lookup, fp_iter, notFeat>>

\* feature_body and lookup_body after the statement loop
feature_body_end ==
    /\ \/ fp_pc = "closing"
       \/ fp_pc = "body" /\ ~more_statements(fp_tokens, fp_pos)
    /\ LET p1 == expect_recover(fp_tokens, fp_pos, {"RBrace"}, TOP_SEMI)
           p2 == expect_recover(fp_tokens, p1, {"Ident"}, TOP_LEVEL)
       IN  fp_pos' = expect_semi(fp_tokens, p2)
    /\ fp_pc' = "done"
    /\ UNCHANGED <<fp_tokens, fp_in_lookup, fp_iter, notFeat>>

\* feature_body or lookup_body with the tag and the opening brace eaten
InitFeat ==
    /\ TreeIdle /\ EditIdle /\ LowerIdle /\ MarkIdle /\ InternIdle /\
       TableIdle /\ GdefIdle /\ ValidateIdle /\ StatIdle /\ SingleSubIdle /\
       SinglePosIdle /\ MarkBaseIdle /\ EnumIdle /\ NameIdle
    /\ fp_tokens \in SeqsUpTo(FeatKinds, MaxFeatTokens)
    /\ fp_in_lookup \in BOOLEAN
    /\ fp_pos = 1
    /\ fp_pc = "body"
    /\ fp_iter = 0

NextFeat ==
    \/ statement
    \/ cv_parameters_start
    \/ cv_parameters_entry
    \/ cv_parameters_end
    \/ feature_names_start
    \/ feature_names_entry
    \/ feature_names_end
    \/ feature_body_end

SpecFeat == InitFeat /\ [][NextFeat]_vars

(* C25: the parser completes on feature and lookup blocks.  statement       *)
(* returns true only if it consumed at least one token, the statement loops *)
(* of feature_body and lookup_body stop as soon as it returns false, and    *)
(* every iteration of the entry loops of cvParameters and featureNames      *)
(* consumes at least one token.                                             *)
FeatureBlockProgress ==
    [][/\ statement => (fp_pc' = "body" <=> fp_pos' > fp_pos)
       /\ cv_parameters_start \/ feature_names_start => fp_pos' > fp_pos
       /\ cv_parameters_entry => fp_pos' > fp_pos
       /\ feature_names_entry => fp_pos' > fp_pos]_vars

-----------------------------------------------------------------------------
(***************************************************************************)
(* Name strings: validate_name_string_encoding checks the escape sequences *)
(* of a string, parse_string decodes the strings of an accepted tree.      *)
(***************************************************************************)

MaxNameLen == 6     \* characters of a name string
MaxNameIter == 3    \* loop iterations of the decoder followed

WIN_PLATFORM == 3
MAC_PLATFORM == 1
WinEscapeLen == 4   \* hex digits of an escape sequence on platform 3
MacEscapeLen == 2   \* hex digits of an escape sequence on platform 1

\* a backslash, a hex digit, a character that is not a hex digit
NameChars == {"\\", "a", "z"}
HexDigits == {"a"}

\* bytes().position(|b| b == b'\\'), counted from 1; 0 when there is none
RECURSIVE backslash_position(_, _)
backslash_position(s, i) ==
    IF i > Len(s) THEN 0
    ELSE IF s[i] = "\\" THEN i
    ELSE backslash_position(s, i + 1)

\* validate_name_string_encoding from to_scan on: TRUE when Ok(())
RECURSIVE validate_name_string_encoding(_, _)
validate_name_string_encoding(platform, to_scan) ==
    IF to_scan = <<>> THEN TRUE
    ELSE LET pos == backslash_position(to_scan, 1)
             n == IF platform = WIN_PLATFORM THEN WinEscapeLen ELSE MacEscapeLen
         IN  IF pos = 0 THEN TRUE
             ELSE IF pos + n > Len(to_scan) THEN FALSE
             ELSE IF \E k \in 1..n : to_scan[pos + k] \notin HexDigits THEN FALSE
             ELSE validate_name_string_encoding(platform,
                                                SubSeq(to_scan, pos + n + 1, Len(to_scan)))

validate_name_string ==
    /\ ns_pc = "validating"
    /\ ns_pc' = IF validate_name_string_encoding(ns_platform, ns_string)
                THEN "accepted" ELSE "rejected"
    /\ UNCHANGED <<ns_platform, ns_string, ns_work, ns_out, ns_iter, notName>>

\* parse_string: a string without a backslash is returned as it is
parse_string ==
    /\ ns_pc = "accepted"
    /\ IF backslash_position(ns_string, 1) = 0
       THEN /\ ns_out' = ns_string
            /\ ns_pc' = "done"
            /\ UNCHANGED ns_work
       ELSE /\ ns_work' = ns_string
            /\ ns_pc' = "parsing"
            /\ UNCHANGED ns_out
    /\ UNCHANGED <<ns_platform, ns_string, ns_iter, notName>>

\* one iteration of the loop of parse_win (platform 3) or parse_mac: the
\* slice of the escape sequence and from_str_radix(..).unwrap() panic on a
\* sequence that is cut short or holds another character
parse_escape ==
    /\ ns_pc = "parsing"
    /\ ns_work # <<>>
    /\ ns_iter < MaxNameIter
    /\ ns_iter' = ns_iter + 1
    /\ LET pos == backslash_position(ns_work, 1)
           n == IF ns_platform = WIN_PLATFORM THEN WinEscapeLen ELSE MacEscapeLen
       IN  IF pos # 0
           THEN IF \/ pos + n > Len(ns_work)
                   \/ \E k \in 1..n : ns_work[pos + k] \notin HexDigits
                THEN /\ ns_pc' = "panic"
                     /\ UNCHANGED <<ns_work, ns_out>>
                ELSE /\ ns_out' = ns_out \o SubSeq(ns_work, 1, pos - 1)
                                     \o <<SubSeq(ns_work, pos + 1, pos + n)>>
                     /\ ns_work' = SubSeq(ns_work, pos + n + 1, Len(ns_work))
                     /\ UNCHANGED ns_pc
           ELSE /\ ns_out' = ns_out \o ns_work
                /\ UNCHANGED <<ns_work, ns_pc>>
    /\ UNCHANGED <<ns_platform, ns_string, notName>>

\* the loop of parse_win, parse_mac is left
parse_end ==
    /\ ns_pc = "parsing"
    /\ ns_work = <<>>
    /\ ns_pc' = "done"
    /\ UNCHANGED <<ns_platform, ns_string, ns_work, ns_out, ns_iter, notName>>

InitName ==
    /\ TreeIdle /\ EditIdle /\ LowerIdle /\ MarkIdle /\ InternIdle /\
       TableIdle /\ GdefIdle /\ ValidateIdle /\ StatIdle /\ SingleSubIdle /\
       SinglePosIdle /\ MarkBaseIdle /\ EnumIdle /\ FeatIdle
    /\ ns_platform \in {WIN_PLATFORM, MAC_PLATFORM}
    /\ ns_string \in SeqsUpTo(NameChars, MaxNameLen)
    /\ ns_work = <<>>
    /\ ns_out = <<>>
    /\ ns_pc = "validating"
    /\ ns_iter = 0

NextName ==
    \/ validate_name_string
    \/ parse_string
    \/ parse_escape
    \/ parse_end

SpecName == InitName /\ [][NextName]_vars

(* C26: name-string decoding terminates.  For every name string accepted by *)
(* validate_name_string_encoding the loops of parse_win and parse_mac never *)
(* panic and every iteration shortens the text still to decode, literal     *)
(* text after the last escape sequence included, so they end with the whole *)
(* string consumed.                                                         *)
NameStringDecodingTerminates ==
    [][parse_escape => /\ ns_pc' # "panic"
                       /\ Len(ns_work') < Len(ns_work)]_vars

-----------------------------------------------------------------------------
\* text_len of the node is the sum of the lengths of the tokens beneath it
\* and rel_pos of each child node is the offset of its start in the node
RECURSIVE WellFormedNode(_)
WellFormedNode(n) ==
    /\ n.text_len = Len(TokensText(n))
    /\ \A i \in 1..Len(n.children) :
          n.children[i].tok \/
             /\ n.children[i].rel_pos = SumTextLen(n.children, i - 1)
             /\ WellFormedNode(n.children[i])

(* C27: in every tree produced by TreeBuilder, by parsing or by apply_edits, *)
(* each node's text_len is the sum of the text lengths of the tokens beneath *)
(* it and each node's rel_pos is the offset of its start relative to the     *)
(* start of its parent; apply_edits(base, []) returns a tree equal to base.  *)
NodeLengthsAndPositions ==
    /\ sink_pc = "finished" => WellFormedNode(root)
    /\ (edited # NoNode /\ ~edited.panic) =>
          /\ WellFormedNode(edited.node)
          /\ edits = {} => edited.node = root

-----------------------------------------------------------------------------
(* C28: the current script is per-feature state.  At the start of every     *)
(* feature block the script is unset, so a `language t` statement lowered   *)
(* while it is unset, before any script statement of its block, makes       *)
(* (DFLT, t) the one current language system, whatever script statements    *)
(* earlier feature blocks held.                                             *)
ScriptUnsetAtFeatureStart ==
    [][/\ \A f \in FeatureTags :
             (start_feature(f) /\ cur_feature_name' = f) => script' = ""
       /\ \A t \in LangTags, x \in BOOLEAN, r \in BOOLEAN :
             (set_language(t, x, r) /\ script = "") =>
                 cur_language_systems' = {<<SCRIPT_DFLT_TAG, t>>}]_vars

-----------------------------------------------------------------------------
(* C29: feature lookup lists are append-only.  Once a lookup id is in the   *)
(* list of a feature key it stays there at the same position for the rest   *)
(* of lowering: every step keeps each key and keeps its list as a prefix of *)
(* the new list, script and language statements included.                   *)
FeatureListsAppendOnly ==
    [][\A key \in DOMAIN features :
          /\ key \in DOMAIN features'
          /\ Len(features'[key]) >= Len(features[key])
          /\ SubSeq(features'[key], 1, Len(features[key])) = features[key]]_vars

-----------------------------------------------------------------------------
(***************************************************************************)
(* Script and language statements in a lookup block outside any feature    *)
(* block: resolve_lookup_block hands every statement of the block to       *)
(* resolve_statement, which calls set_script and set_language.             *)
(***************************************************************************)

\* set_script on a script statement of a standalone lookup block
set_script_outside_feature(t) ==
    /\ Running /\ where = <<"lookup">>
    /\ Len(errors) < MaxDiag
    /\ script' = t
    /\ set_script_language(t, LANG_DFLT_TAG, FALSE, errors)
    /\ Step
    /\ UNCHANGED <<tables, default_lang_systems, lookup_flags, cur_mark_filter_set,
                   cur_feature_name, where, block_kind, panic, compilation, notLower>>

\* set_language on a language statement of a standalone lookup block
set_language_outside_feature(t, exclude_dflt) ==
    /\ Running /\ where = <<"lookup">>
    /\ Len(errors) < MaxDiag
    /\ LET scr == IF script # "" THEN script ELSE SCRIPT_DFLT_TAG
       IN  set_script_language(scr, t, exclude_dflt, errors)
    /\ Step
    /\ UNCHANGED <<tables, default_lang_systems, lookup_flags, cur_mark_filter_set,
                   cur_feature_name, script, where, block_kind, panic, compilation,
                   notLower>>

NextStandalone ==
    \/ \E n \in LookupNames : start_lookup_block(n)
    \/ end_lookup_block
    \/ \E k \in RuleKinds : add_rule(k)
    \/ \E t \in ScriptTags : set_script_outside_feature(t)
    \/ \E t \in LangTags, x \in BOOLEAN : set_language_outside_feature(t, x)
    \/ \E f \in FeatureTags : start_feature(f)
    \/ \E t \in LangTags, x \in BOOLEAN, r \in BOOLEAN : set_language(t, x, r)
    \/ end_feature

SpecStandalone == InitLower /\ [][NextStandalone]_vars

(* C30: a script or language statement rejected during lowering, being      *)
(* outside any feature block, reports an error and leaves the lowering      *)
(* state as it was: the script, the current language systems, the current   *)
(* lookup and registry, and all feature lists.                              *)
RejectedStatementFrame ==
    [][(\/ \E t \in ScriptTags : set_script_outside_feature(t)
        \/ \E t \in LangTags, x \in BOOLEAN : set_language_outside_feature(t, x)) =>
           /\ Len(errors') = Len(errors) + 1
           /\ is_error(errors'[Len(errors')])
           /\ script' = script
           /\ cur_language_systems' = cur_language_systems
           /\ lookups' = lookups
           /\ features' = features]_vars

=============================================================================
